---- MODULE Spec2Model ----
(***************************************************************************)
(* A model of the MLS client session layer (src/src/session.rs) on top of  *)
(* the group state machine.  A Session owns a Group (`protocol`) and an    *)
(* optional pending commit; the group advances in epochs by applying       *)
(* commits.  Several clients exchange packets over a network that may      *)
(* deliver any packet ever produced, to anyone, any number of times.       *)
(***************************************************************************)
EXTENDS Integers, Sequences, FiniteSets, TLC

\* Number of clients (identities) that may take part in the group.
MaxClients == 3
\* Number of commits created (each draws a fresh path secret).
MaxCommits == 3
\* Commits created and sessions opened in the histories that use every operation.
MaxCommitsAll == 2
MaxSessionsAll == 2
\* Number of Update proposals created (each draws a fresh leaf key).
MaxUpdates == 1
\* Number of proposal packets sent by reference (propose_*).
MaxProposalMsgs == 1
\* Number of application ciphertexts produced.
MaxAppMsgs == 1
\* Longest by-value proposal list handed to commit.
MaxByValue == 1

Clients == 0 .. (MaxClients - 1)
NoClient == 0 - 1
NoLeaf == 0 - 1

None == << >>
Some(x) == << x >>
IsSome(o) == Len(o) = 1
IsNone(o) == Len(o) = 0

RECURSIVE SeqsUpTo(_, _)
SeqsUpTo(S, n) ==
    IF n = 0 THEN { << >> }
    ELSE LET shorter == SeqsUpTo(S, n - 1)
         IN  shorter \cup { Append(s, x) : s \in { t \in shorter : Len(t) = n - 1 }, x \in S }

Range(s) == { s[i] : i \in 1 .. Len(s) }

(***************************************************************************)
(* Ratchet tree, reduced to its leaves: leaf index l is tree[l + 1].  A    *)
(* leaf holds the member's credential (the client id) and the version of   *)
(* its leaf key; a blank leaf holds nothing.                               *)
(***************************************************************************)
BlankLeaf == [id |-> NoClient, key |-> 0]
IsBlank(leaf) == leaf.id = NoClient

LeafCount(tree) == Len(tree)

InTree(tree, l) == l >= 0 /\ l < Len(tree) /\ ~IsBlank(tree[l + 1])

HasMember(tree, c) == \E i \in 1 .. Len(tree) : tree[i].id = c

LeafIndexOf(tree, c) ==
    IF HasMember(tree, c)
    THEN (CHOOSE i \in 1 .. Len(tree) : tree[i].id = c) - 1
    ELSE NoLeaf

\* Credentials of the non-blank leaves, in leaf order.
RECURSIVE GetCredentials(_)
GetCredentials(tree) ==
    IF tree = << >> THEN << >>
    ELSE IF IsBlank(Head(tree)) THEN GetCredentials(Tail(tree))
    ELSE << Head(tree).id >> \o GetCredentials(Tail(tree))

\* A new leaf fills the lowest-indexed blank leaf, else the tree grows.
AddLeaf(tree, c) ==
    LET leaf == [id |-> c, key |-> 0]
    IN  IF \E i \in 1 .. Len(tree) : IsBlank(tree[i])
        THEN LET i == CHOOSE j \in 1 .. Len(tree) :
                        IsBlank(tree[j]) /\ \A k \in 1 .. (j - 1) : ~IsBlank(tree[k])
             IN  [tree EXCEPT ![i] = leaf]
        ELSE Append(tree, leaf)

RECURSIVE Truncate(_)
Truncate(tree) ==
    IF tree = << >> THEN tree
    ELSE IF IsBlank(tree[Len(tree)]) THEN Truncate(SubSeq(tree, 1, Len(tree) - 1))
    ELSE tree

\* Removal blanks the leaf and truncates trailing blank leaves.
RemoveLeaf(tree, l) == Truncate([tree EXCEPT ![l + 1] = BlankLeaf])

\* An update or a commit path replaces the key of a leaf.
RekeyLeaf(tree, l, k) == [tree EXCEPT ![l + 1].key = k]

(***************************************************************************)
(* Proposals.  `arg` is the client added, the leaf removed, or the new     *)
(* leaf key of an update; `sender` is the proposer's leaf.  A commit lists *)
(* each proposal by value or by reference (`ref`).                         *)
(***************************************************************************)
AddProposal(c, l) == [type |-> "add", arg |-> c, sender |-> l]
UpdateProposal(k, l) == [type |-> "update", arg |-> k, sender |-> l]
RemoveProposal(r, l) == [type |-> "remove", arg |-> r, sender |-> l]

ByValue(p) == [ref |-> FALSE, p |-> p]
ByRef(p) == [ref |-> TRUE, p |-> p]

SelectType(props, t) == SelectSeq(props, LAMBDA p : p.type = t)

RECURSIVE ApplyUpdates(_, _)
ApplyUpdates(tree, ups) ==
    IF ups = << >> THEN tree
    ELSE ApplyUpdates(RekeyLeaf(tree, Head(ups).sender, Head(ups).arg), Tail(ups))

RECURSIVE ApplyRemoves(_, _)
ApplyRemoves(tree, rms) ==
    IF rms = << >> THEN tree
    ELSE ApplyRemoves([tree EXCEPT ![Head(rms).arg + 1] = BlankLeaf], Tail(rms))

RECURSIVE ApplyAdds(_, _)
ApplyAdds(tree, adds) ==
    IF adds = << >> THEN tree
    ELSE ApplyAdds(AddLeaf(tree, Head(adds).arg), Tail(adds))

NoDuplicates(s) == \A i, j \in 1 .. Len(s) : i # j => s[i] # s[j]

ArgsOf(props) == [i \in 1 .. Len(props) |-> props[i].arg]
SendersOf(props) == [i \in 1 .. Len(props) |-> props[i].sender]

\* The rules a commit's proposal list must satisfy in a tree, for a committer.
ValidProposals(tree, props, committer) ==
    LET ups == SelectType(props, "update")
        rms == SelectType(props, "remove")
        adds == SelectType(props, "add")
    IN  /\ \A i \in 1 .. Len(props) : InTree(tree, props[i].sender)
        /\ \A i \in 1 .. Len(ups) : ups[i].sender # committer
        /\ NoDuplicates(SendersOf(ups))
        /\ \A i \in 1 .. Len(rms) : InTree(tree, rms[i].arg)
        /\ NoDuplicates(ArgsOf(rms))
        /\ \A i \in 1 .. Len(rms) : rms[i].arg # committer
        /\ \A i \in 1 .. Len(adds) : ~HasMember(tree, adds[i].arg)
        /\ NoDuplicates(ArgsOf(adds))

\* Updates, then removes, then adds; trailing blanks are truncated.
ApplyProposals(tree, props) ==
    LET t1 == ApplyUpdates(tree, SelectType(props, "update"))
        t2 == Truncate(ApplyRemoves(t1, SelectType(props, "remove")))
    IN  ApplyAdds(t2, SelectType(props, "add"))

(***************************************************************************)
(* Group state.  `key` stands for the epoch's key schedule: it names the   *)
(* commit that produced the epoch (0 for a new group).  `buf` is the       *)
(* proposal buffer, `gen` the next application generation of this member   *)
(* and `seen` the application generations already consumed.                *)
(***************************************************************************)
GroupNew(c) ==
    [epoch |-> 0, key |-> 0, tree |-> << [id |-> c, key |-> 0] >>, me |-> 0,
     active |-> TRUE, buf |-> << >>, gen |-> 0, seen |-> {}]

NoGroup ==
    [epoch |-> 0, key |-> 0, tree |-> << >>, me |-> NoLeaf,
     active |-> FALSE, buf |-> << >>, gen |-> 0, seen |-> {}]

\* Group equality: the public state of the epoch.
GroupEq(g, h) == g.epoch = h.epoch /\ g.key = h.key /\ g.tree = h.tree

NoUpdate == [epoch |-> 0, added |-> << >>, removed |-> << >>, active |-> FALSE]

Packet(kind, wire, g, id, proposals, path, data) ==
    [kind |-> kind, wire |-> wire, sender |-> g.me, epoch |-> g.epoch, parent |-> g.key,
     id |-> id, proposals |-> proposals, path |-> path, data |-> data]

Garbage ==
    [kind |-> "garbage", wire |-> "plain", sender |-> NoLeaf, epoch |-> 0, parent |-> 0,
     id |-> 0, proposals |-> << >>, path |-> FALSE, data |-> 0]

Resolved(m) == [i \in 1 .. Len(m.proposals) |-> m.proposals[i].p]

RefsKnown(g, m) ==
    \A i \in 1 .. Len(m.proposals) : m.proposals[i].ref => m.proposals[i].p \in Range(g.buf)

\* The checks of commit application: framing authentication under the epoch's
\* keys, the proposal rules, and the references into the proposal buffer.
CommitValid(g, m) ==
    /\ g.active
    /\ m.kind = "commit"
    /\ m.epoch = g.epoch
    /\ m.parent = g.key
    /\ InTree(g.tree, m.sender)
    /\ RefsKnown(g, m)
    /\ ValidProposals(g.tree, Resolved(m), m.sender)

CommitTree(g, m) ==
    LET t == ApplyProposals(g.tree, Resolved(m))
    IN  IF m.path THEN RekeyLeaf(t, m.sender, m.id) ELSE t

RemovedLeaves(m) == ArgsOf(SelectType(Resolved(m), "remove"))

CommitUpdate(g, m) ==
    LET rms == RemovedLeaves(m)
    IN  [epoch |-> g.epoch + 1,
         added |-> ArgsOf(SelectType(Resolved(m), "add")),
         removed |-> [i \in 1 .. Len(rms) |-> g.tree[rms[i] + 1].id],
         active |-> g.me \notin Range(rms)]

\* The epoch a commit produces: the new tree, the new key schedule, an empty
\* proposal buffer and fresh message ratchets.
CommitApply(g, m) ==
    LET upd == CommitUpdate(g, m)
    IN  [epoch |-> g.epoch + 1, key |-> m.id, tree |-> CommitTree(g, m),
         me |-> IF upd.active THEN g.me ELSE NoLeaf,
         active |-> upd.active, buf |-> << >>, gen |-> 0, seen |-> {}]

\* Group::commit_proposals: build a commit from the buffered proposals (by
\* reference) and the given ones (by value); an Add yields a Welcome.
CommitProposalList(g, proposals) ==
    [i \in 1 .. Len(g.buf) |-> ByRef(g.buf[i])]
        \o [i \in 1 .. Len(proposals) |-> ByValue(proposals[i])]

\* A path update is forced when an Update or a Remove is committed.
PathRequired(props) == \E i \in 1 .. Len(props) : props[i].p.type \in {"update", "remove"}

CommitProposals(g, proposals, update_path, wire, id) ==
    LET props == CommitProposalList(g, proposals)
        m == Packet("commit", wire, g, id, props, update_path \/ PathRequired(props), 0)
        ok == CommitValid(g, m)
        next == CommitApply(g, m)
        adds == ArgsOf(SelectType(Resolved(m), "add"))
    IN  [ok |-> ok,
         commit |-> m,
         welcome |-> IF ok /\ adds # << >>
                     THEN Some([epoch |-> next.epoch, key |-> next.key, tree |-> next.tree,
                                to |-> Range(adds)])
                     ELSE None]

\* Group::process_incoming_message.
GroupProcess(g, m) ==
    LET err(e) == [ok |-> FALSE, err |-> e, kind |-> m.kind, upd |-> NoUpdate, data |-> 0,
                   g |-> g]
    IN  IF ~g.active \/ m.epoch # g.epoch THEN err("EpochNotFound")
        ELSE IF m.parent # g.key \/ ~InTree(g.tree, m.sender) THEN err("InvalidSignature")
        ELSE IF m.sender = g.me THEN err("CantProcessMessageFromSelf")
        ELSE IF m.kind = "proposal"
        THEN [ok |-> TRUE, err |-> "", kind |-> "proposal", upd |-> NoUpdate, data |-> 0,
              g |-> IF m.proposals[1].p \in Range(g.buf) THEN g
                    ELSE [g EXCEPT !.buf = Append(@, m.proposals[1].p)]]
        ELSE IF m.kind = "commit"
        THEN IF CommitValid(g, m)
             THEN [ok |-> TRUE, err |-> "", kind |-> "commit", upd |-> CommitUpdate(g, m),
                   data |-> 0, g |-> CommitApply(g, m)]
             ELSE err("InvalidCommit")
        ELSE IF << m.sender, m.id >> \in g.seen THEN err("KeyNotFound")
        ELSE [ok |-> TRUE, err |-> "", kind |-> "application", upd |-> NoUpdate,
              data |-> m.data, g |-> [g EXCEPT !.seen = @ \cup { << m.sender, m.id >> }]]

\* Group::process_pending_commit; `group_ok` is false when a step of commit
\* application fails inside the group.
GroupProcessPending(g, m, group_ok) ==
    IF group_ok /\ CommitValid(g, m)
    THEN [ok |-> TRUE, upd |-> CommitUpdate(g, m), g |-> CommitApply(g, m)]
    ELSE [ok |-> FALSE, upd |-> NoUpdate, g |-> g]

\* Group::from_welcome_message: the supplied tree must be the one the Welcome's
\* group info commits to, and the Welcome must be addressed to the joiner.
WelcomeValid(w, tree, c) == c \in w.to /\ tree = w.tree

GroupFromWelcome(w, tree, c) ==
    [epoch |-> w.epoch, key |-> w.key, tree |-> tree, me |-> LeafIndexOf(tree, c),
     active |-> TRUE, buf |-> << >>, gen |-> 0, seen |-> {}]

(***************************************************************************)
(* Proposal construction in the group: Group::add_member_proposal,         *)
(* Group::update_proposal (a fresh leaf key) and Group::remove_proposal.   *)
(***************************************************************************)
GroupAddProposal(g, c) == [ok |-> g.active, p |-> AddProposal(c, g.me)]
GroupUpdateProposal(g, k) == [ok |-> g.active, p |-> UpdateProposal(k, g.me)]
GroupRemoveProposal(g, l) == [ok |-> g.active /\ InTree(g.tree, l), p |-> RemoveProposal(l, g.me)]

\* Group::create_proposal: frame the proposal and keep it in the own buffer.
GroupCreateProposal(g, p, wire) ==
    [packet |-> Packet("proposal", wire, g, 0, << ByValue(p) >>, FALSE, 0),
     g |-> IF p \in Range(g.buf) THEN g ELSE [g EXCEPT !.buf = Append(@, p)]]

\* Group::encrypt_application_message: the next generation of the own ratchet.
GroupEncrypt(g, data) ==
    [ok |-> g.active,
     packet |-> Packet("application", "cipher", g, g.gen, << >>, FALSE, data),
     g |-> [g EXCEPT !.gen = @ + 1]]

(***************************************************************************)
(* Session: the group (`protocol`), the pending commit (an Option) and the *)
(* options.  Each operation is given as the code computes it: from the     *)
(* session and its arguments to the result returned (`ret`) and the        *)
(* session it leaves behind (`s`).                                         *)
(***************************************************************************)
NoSession == [protocol |-> NoGroup, pending_commit |-> None, opts |-> FALSE]

\* SessionOpts::wire_format
wire_format(encrypt_controls) == IF encrypt_controls THEN "cipher" ELSE "plain"

\* Session::create
create(c, encrypt_controls) ==
    [protocol |-> GroupNew(c), pending_commit |-> None, opts |-> encrypt_controls]

\* A joined session that starts out holding a commit.
join_StalePending(c, w, tree, encrypt_controls) ==
    IF WelcomeValid(w, tree, c)
    THEN [ret |-> "Ok",
          s |-> [protocol |-> GroupFromWelcome(w, tree, c), pending_commit |-> Some(Garbage),
                 opts |-> encrypt_controls]]
    ELSE [ret |-> "ProtocolError", s |-> NoSession]

\* Session::join
join(c, w, tree, encrypt_controls) ==
    IF WelcomeValid(w, tree, c)
    THEN [ret |-> "Ok",
          s |-> [protocol |-> GroupFromWelcome(w, tree, c), pending_commit |-> None,
                 opts |-> encrypt_controls]]
    ELSE [ret |-> "ProtocolError", s |-> NoSession]

\* Session::export_tree, Session::participant_count, Session::roster
export_tree(s) == s.protocol.tree
participant_count_NodeCount(s) ==
    IF s.protocol.tree = << >> THEN 0 ELSE 2 * LeafCount(s.protocol.tree) - 1
participant_count(s) == LeafCount(s.protocol.tree)
roster(s) == GetCredentials(s.protocol.tree)

\* Session::has_equal_state
has_equal_state(s, other) == GroupEq(s.protocol, other.protocol)

\* Session::add_proposal, Session::update_proposal (k: the fresh leaf key),
\* Session::remove_proposal: the Proposal is returned, the session is as before.
add_proposal(s, c) ==
    LET r == GroupAddProposal(s.protocol, c)
    IN  [ret |-> IF r.ok THEN "Ok" ELSE "ProtocolError", p |-> r.p, s |-> s]

update_proposal(s, k) ==
    LET r == GroupUpdateProposal(s.protocol, k)
    IN  [ret |-> IF r.ok THEN "Ok" ELSE "ProtocolError", p |-> r.p, s |-> s]

\* remove_proposal that counts leaves from one.
remove_proposal_FromOne(s, index) ==
    LET r == GroupRemoveProposal(s.protocol, index + 1)
    IN  [ret |-> IF r.ok THEN "Ok" ELSE "ProtocolError", p |-> r.p, s |-> s]

remove_proposal(s, index) ==
    LET r == GroupRemoveProposal(s.protocol, index)
    IN  [ret |-> IF r.ok THEN "Ok" ELSE "ProtocolError", p |-> r.p, s |-> s]

\* The proposal framed on a copy of the group: the session does not keep it.
send_proposal_Detached(s, proposal) ==
    LET c == GroupCreateProposal(s.protocol, proposal, wire_format(s.opts))
    IN  [ret |-> "Ok", packet |-> Some(c.packet), s |-> s]

\* Session::send_proposal
send_proposal(s, proposal) ==
    LET c == GroupCreateProposal(s.protocol, proposal, wire_format(s.opts))
    IN  [ret |-> "Ok", packet |-> Some(c.packet), s |-> [s EXCEPT !.protocol = c.g]]

\* The `?` of propose_*: an error building the proposal is returned as it is.
SendIfOk(s, r) ==
    IF r.ret = "Ok" THEN send_proposal(s, r.p)
    ELSE [ret |-> r.ret, packet |-> None, s |-> s]

\* Session::propose_add, Session::propose_update, Session::propose_remove
propose_add(s, c) == SendIfOk(s, add_proposal(s, c))
propose_update(s, k) == SendIfOk(s, update_proposal(s, k))
propose_remove(s, index) == SendIfOk(s, remove_proposal(s, index))

\* commit without the check for a pending commit.
CommitOn_Unguarded(s, proposals, update_path, ser, id) ==
    LET fail(e, t) == [ret |-> e, packet |-> None, welcome |-> None, s |-> t]
        r == CommitProposals(s.protocol, proposals, update_path, wire_format(s.opts), id)
        stored == [s EXCEPT !.pending_commit = Some(r.commit)]
    IN  IF ~r.ok THEN fail("ProtocolError", s)
        ELSE IF ser = "commit" THEN fail("Serialization", s)
        ELSE IF ser = "welcome" /\ IsSome(r.welcome) THEN fail("Serialization", stored)
        ELSE [ret |-> "Ok", packet |-> Some(r.commit), welcome |-> r.welcome, s |-> stored]

\* commit that moves the group to the new epoch at once.
CommitOn_AppliesAtOnce(s, proposals, update_path, ser, id) ==
    LET fail(e, t) == [ret |-> e, packet |-> None, welcome |-> None, s |-> t]
    IN  IF IsSome(s.pending_commit) THEN fail("ExistingPendingCommit", s)
        ELSE LET r == CommitProposals(s.protocol, proposals, update_path,
                                      wire_format(s.opts), id)
                 stored == [s EXCEPT !.pending_commit = Some(r.commit),
                                     !.protocol = CommitApply(s.protocol, r.commit)]
             IN  IF ~r.ok THEN fail("ProtocolError", s)
                 ELSE IF ser = "commit" THEN fail("Serialization", s)
                 ELSE IF ser = "welcome" /\ IsSome(r.welcome) THEN fail("Serialization", stored)
                 ELSE [ret |-> "Ok", packet |-> Some(r.commit), welcome |-> r.welcome,
                       s |-> stored]

\* commit that hands the group an empty proposal list.
CommitOn_DropsProposals(s, proposals, update_path, ser, id) ==
    LET fail(e, t) == [ret |-> e, packet |-> None, welcome |-> None, s |-> t]
    IN  IF IsSome(s.pending_commit) THEN fail("ExistingPendingCommit", s)
        ELSE LET r == CommitProposals(s.protocol, << >>, update_path, wire_format(s.opts), id)
                 stored == [s EXCEPT !.pending_commit = Some(r.commit)]
             IN  IF ~r.ok THEN fail("ProtocolError", s)
                 ELSE IF ser = "commit" THEN fail("Serialization", s)
                 ELSE IF ser = "welcome" /\ IsSome(r.welcome) THEN fail("Serialization", stored)
                 ELSE [ret |-> "Ok", packet |-> Some(r.commit), welcome |-> r.welcome,
                       s |-> stored]

\* commit that returns no Welcome packet.
CommitOn_NoWelcome(s, proposals, update_path, ser, id) ==
    LET fail(e, t) == [ret |-> e, packet |-> None, welcome |-> None, s |-> t]
    IN  IF IsSome(s.pending_commit) THEN fail("ExistingPendingCommit", s)
        ELSE LET r == CommitProposals(s.protocol, proposals, update_path,
                                      wire_format(s.opts), id)
                 stored == [s EXCEPT !.pending_commit = Some(r.commit)]
             IN  IF ~r.ok THEN fail("ProtocolError", s)
                 ELSE IF ser = "commit" THEN fail("Serialization", s)
                 ELSE IF ser = "welcome" /\ IsSome(r.welcome) THEN fail("Serialization", stored)
                 ELSE [ret |-> "Ok", packet |-> Some(r.commit), welcome |-> None, s |-> stored]

\* Session::commit, for the path flag handed to Group::commit_proposals.  `id`
\* names the commit (its fresh path secret); `ser` tells which serialization,
\* if any, fails: "commit" (serialize_control) or "welcome".
CommitOn(s, proposals, update_path, ser, id) ==
    LET fail(e, t) == [ret |-> e, packet |-> None, welcome |-> None, s |-> t]
    IN  IF IsSome(s.pending_commit) THEN fail("ExistingPendingCommit", s)
        ELSE LET r == CommitProposals(s.protocol, proposals, update_path,
                                      wire_format(s.opts), id)
                 stored == [s EXCEPT !.pending_commit = Some(r.commit)]
             IN  IF ~r.ok THEN fail("ProtocolError", s)
                 ELSE IF ser = "commit" THEN fail("Serialization", s)
                 ELSE IF ser = "welcome" /\ IsSome(r.welcome) THEN fail("Serialization", stored)
                 ELSE [ret |-> "Ok", packet |-> Some(r.commit), welcome |-> r.welcome,
                       s |-> stored]

\* Session::commit passes update_path = true.
commit(s, proposals, ser, id) == CommitOn(s, proposals, TRUE, ser, id)

\* The pending commit dropped whatever the group answers, an error included.
process_incoming_message_DropsPending(s, message) ==
    LET res == GroupProcess(s.protocol, message)
        dropped == [s EXCEPT !.pending_commit = None]
    IN  IF ~res.ok
        THEN [ret |-> res.err, kind |-> message.kind, upd |-> NoUpdate, data |-> 0,
              s |-> dropped]
        ELSE [ret |-> "Ok", kind |-> res.kind, upd |-> res.upd, data |-> res.data,
              s |-> [dropped EXCEPT !.protocol = res.g]]

\* The message processed on a copy of the group: the session's group stays.
process_incoming_message_OnClone(s, message) ==
    LET res == GroupProcess(s.protocol, message)
    IN  IF ~res.ok
        THEN [ret |-> res.err, kind |-> message.kind, upd |-> NoUpdate, data |-> 0, s |-> s]
        ELSE [ret |-> "Ok", kind |-> res.kind, upd |-> res.upd, data |-> res.data,
              s |-> [s EXCEPT !.pending_commit = IF res.kind = "commit" THEN None ELSE @]]

\* The pending commit kept when a received commit is processed.
process_incoming_message_KeepsPending(s, message) ==
    LET res == GroupProcess(s.protocol, message)
    IN  IF ~res.ok
        THEN [ret |-> res.err, kind |-> message.kind, upd |-> NoUpdate, data |-> 0, s |-> s]
        ELSE [ret |-> "Ok", kind |-> res.kind, upd |-> res.upd, data |-> res.data,
              s |-> [s EXCEPT !.protocol = res.g]]

\* Session::process_incoming_message
process_incoming_message(s, message) ==
    LET res == GroupProcess(s.protocol, message)
    IN  IF ~res.ok
        THEN [ret |-> res.err, kind |-> message.kind, upd |-> NoUpdate, data |-> 0, s |-> s]
        ELSE [ret |-> "Ok", kind |-> res.kind, upd |-> res.upd, data |-> res.data,
              s |-> [protocol |-> res.g,
                     pending_commit |-> IF res.kind = "commit" THEN None ELSE s.pending_commit,
                     opts |-> s.opts]]

\* Session::process_incoming_bytes
process_incoming_bytes(s, data) ==
    IF data.kind = "garbage"
    THEN [ret |-> "Serialization", kind |-> data.kind, upd |-> NoUpdate, data |-> 0, s |-> s]
    ELSE process_incoming_message(s, data)

\* The pending commit read without take(): it stays stored.
apply_pending_commit_Keeps(s, group_ok) ==
    IF IsNone(s.pending_commit)
    THEN [ret |-> "PendingCommitNotFound", upd |-> NoUpdate, s |-> s]
    ELSE LET r == GroupProcessPending(s.protocol, s.pending_commit[1], group_ok)
         IN  IF r.ok
             THEN [ret |-> "Ok", upd |-> r.upd, s |-> [s EXCEPT !.protocol = r.g]]
             ELSE [ret |-> "ProtocolError", upd |-> NoUpdate, s |-> s]

\* The pending commit applied to a copy of the group: the session's group stays.
apply_pending_commit_OnClone(s, group_ok) ==
    IF IsNone(s.pending_commit)
    THEN [ret |-> "PendingCommitNotFound", upd |-> NoUpdate, s |-> s]
    ELSE LET taken == [s EXCEPT !.pending_commit = None]
             r == GroupProcessPending(taken.protocol, s.pending_commit[1], group_ok)
         IN  IF r.ok
             THEN [ret |-> "Ok", upd |-> r.upd, s |-> taken]
             ELSE [ret |-> "ProtocolError", upd |-> NoUpdate, s |-> taken]

\* Session::apply_pending_commit
apply_pending_commit(s, group_ok) ==
    IF IsNone(s.pending_commit)
    THEN [ret |-> "PendingCommitNotFound", upd |-> NoUpdate, s |-> s]
    ELSE LET pending == s.pending_commit[1]
             taken == [s EXCEPT !.pending_commit = None]
             r == GroupProcessPending(taken.protocol, pending, group_ok)
         IN  IF r.ok
             THEN [ret |-> "Ok", upd |-> r.upd, s |-> [taken EXCEPT !.protocol = r.g]]
             ELSE [ret |-> "ProtocolError", upd |-> NoUpdate, s |-> taken]

\* Session::clear_pending_commit
clear_pending_commit(s) == [s EXCEPT !.pending_commit = None]

\* The message encrypted on a copy of the group: the ratchet does not advance.
encrypt_application_data_OnClone(s, data) ==
    LET r == GroupEncrypt(s.protocol, data)
    IN  IF r.ok
        THEN [ret |-> "Ok", packet |-> Some(r.packet), s |-> s]
        ELSE [ret |-> "ProtocolError", packet |-> None, s |-> s]

\* Session::encrypt_application_data
encrypt_application_data(s, data) ==
    LET r == GroupEncrypt(s.protocol, data)
    IN  IF r.ok
        THEN [ret |-> "Ok", packet |-> Some(r.packet), s |-> [s EXCEPT !.protocol = r.g]]
        ELSE [ret |-> "ProtocolError", packet |-> None, s |-> s]

(***************************************************************************)
(* TLS encoding of the framing structures and of credentials.  A byte      *)
(* string is a sequence of naturals below 256; a reader returns what it    *)
(* read and the bytes left, or the error it stopped with.                  *)
(***************************************************************************)
MaxFieldLen == 1
MaxPaddingLen == 2
MaxCredentialType == 4

ByteValues == {0, 1}
ByteStrings == SeqsUpTo(ByteValues, MaxFieldLen)

ReadOk(v, rest) == [ok |-> TRUE, err |-> "", v |-> v, rest |-> rest]
ReadErr(e) == [ok |-> FALSE, err |-> e, v |-> << >>, rest |-> << >>]

\* Big-endian integer of w bytes.
RECURSIVE UInt(_, _)
UInt(n, w) == IF w = 0 THEN << >> ELSE UInt(n \div 256, w - 1) \o << n % 256 >>

RECURSIVE UIntValue(_)
UIntValue(b) ==
    IF b = << >> THEN 0 ELSE UIntValue(SubSeq(b, 1, Len(b) - 1)) * 256 + b[Len(b)]

ReadUInt(b, w) ==
    IF Len(b) < w THEN ReadErr("EndOfStream")
    ELSE ReadOk(UIntValue(SubSeq(b, 1, w)), SubSeq(b, w + 1, Len(b)))

\* A structure is read field by field: p holds the fields read so far (p.v)
\* and the bytes left (p.rest), or the error; r is the next field's reading.
Start(bytes) == ReadOk(<< >>, bytes)
Then(p, r) ==
    IF ~p.ok THEN p
    ELSE IF ~r.ok THEN ReadErr(r.err)
    ELSE ReadOk(Append(p.v, r.v), r.rest)
SomeOf(r) == IF r.ok THEN ReadOk(Some(r.v), r.rest) ELSE r
WithRest(r, rest) == IF r.ok THEN ReadOk(r.v, rest) ELSE r
ThenUInt(p, w) == Then(p, ReadUInt(p.rest, w))

\* crate::tls::ByteVec: the length, then the bytes (lengths below 64 take a
\* one-byte prefix).
ByteVec(data) == << Len(data) >> \o data
ByteVecLen(data) == 1 + Len(data)

ReadByteVec(b) ==
    IF b = << >> THEN ReadErr("EndOfStream")
    ELSE IF Len(b) - 1 < b[1] THEN ReadErr("EndOfStream")
    ELSE ReadOk(SubSeq(b, 2, b[1] + 1), SubSeq(b, b[1] + 2, Len(b)))

ThenByteVec(p) == Then(p, ReadByteVec(p.rest))

\* enum ContentType
ContentTypeApplication == 1
ContentTypeProposal == 2
ContentTypeCommit == 3
ContentTypes == {ContentTypeApplication, ContentTypeProposal, ContentTypeCommit}


\* Proposal, reduced to Remove: the u16 proposal type, then the u32 leaf.
ProposalTypeRemove == 3
WireRemove(l) == [proposal_type |-> ProposalTypeRemove, to_remove |-> l]

ProposalSerialize(p) == UInt(p.proposal_type, 2) \o UInt(p.to_remove, 4)
ProposalLen(p) == 2 + 4

ProposalTypeKnown(p) ==
    IF p.ok /\ p.v[1] # ProposalTypeRemove THEN ReadErr("UnknownValue") ELSE p
ProposalOf(p) == IF p.ok THEN ReadOk(WireRemove(p.v[2]), p.rest) ELSE p
ProposalDeserialize(b) ==
    ProposalOf(ThenUInt(ProposalTypeKnown(ThenUInt(Start(b), 2)), 4))

\* Commit: the proposals as a vector prefixed with its length in bytes, then
\* the optional path (a presence byte, then the path as opaque bytes).
WireCommit(proposals, path) == [proposals |-> proposals, path |-> path]

RECURSIVE ProposalsSerialize(_)
ProposalsSerialize(ps) ==
    IF ps = << >> THEN << >> ELSE ProposalSerialize(Head(ps)) \o ProposalsSerialize(Tail(ps))

RECURSIVE ProposalsLen(_)
ProposalsLen(ps) == IF ps = << >> THEN 0 ELSE ProposalLen(Head(ps)) + ProposalsLen(Tail(ps))

PrependTo(x, more) == IF more.ok THEN ReadOk(<< x >> \o more.v, << >>) ELSE more

RECURSIVE ProposalsDeserialize(_), ProposalsAfter(_)
ProposalsDeserialize(b) ==
    IF b = << >> THEN ReadOk(<< >>, << >>) ELSE ProposalsAfter(ProposalDeserialize(b))
ProposalsAfter(p) ==
    IF ~p.ok THEN p ELSE PrependTo(p.v, ProposalsDeserialize(p.rest))

CommitSerialize(c) ==
    ByteVec(ProposalsSerialize(c.proposals))
        \o (IF IsSome(c.path) THEN << 1 >> \o ByteVec(c.path[1]) ELSE << 0 >>)

CommitLen(c) ==
    1 + ProposalsLen(c.proposals)
        + (IF IsSome(c.path) THEN 1 + ByteVecLen(c.path[1]) ELSE 1)

OptionalPath(b) ==
    IF b = << >> THEN ReadErr("EndOfStream")
    ELSE IF b[1] = 0 THEN ReadOk(None, Tail(b))
    ELSE IF b[1] # 1 THEN ReadErr("DecodingError")
    ELSE SomeOf(ReadByteVec(Tail(b)))
CommitProposalsIn(v) == IF ~v.ok THEN v ELSE WithRest(ProposalsDeserialize(v.v), v.rest)
CommitOf(p) == IF p.ok THEN ReadOk(WireCommit(p.v[1], p.v[2]), p.rest) ELSE p
ThenPath(p) == Then(p, OptionalPath(p.rest))
CommitDeserialize(b) ==
    CommitOf(ThenPath(Then(Start(b), CommitProposalsIn(ReadByteVec(b)))))

\* enum Content: an ApplicationData, a Proposal or a Commit (the fields of the
\* other two variants are left empty).
NoWireProposal == [proposal_type |-> 0, to_remove |-> 0]
NoWireCommit == WireCommit(<< >>, None)
ContentOf(ct, inner) ==
    [ctype |-> ct,
     application |-> IF ct = ContentTypeApplication THEN inner ELSE << >>,
     proposal |-> IF ct = ContentTypeProposal THEN inner ELSE NoWireProposal,
     commit |-> IF ct = ContentTypeCommit THEN inner ELSE NoWireCommit]

\* Content::content_type
content_type(content) == content.ctype

\* The content without its type, as MLSCiphertextContent writes and reads it.
ContentInnerSerialize(content) ==
    CASE content.ctype = ContentTypeApplication -> ByteVec(content.application)
      [] content.ctype = ContentTypeProposal -> ProposalSerialize(content.proposal)
      [] content.ctype = ContentTypeCommit -> CommitSerialize(content.commit)

ContentInnerLen(content) ==
    CASE content.ctype = ContentTypeApplication -> ByteVecLen(content.application)
      [] content.ctype = ContentTypeProposal -> ProposalLen(content.proposal)
      [] content.ctype = ContentTypeCommit -> CommitLen(content.commit)

AsContent(ct, r) == IF r.ok THEN ReadOk(ContentOf(ct, r.v), r.rest) ELSE r
ContentInnerDeserialize(b, ct) ==
    AsContent(ct, CASE ct = ContentTypeApplication -> ReadByteVec(b)
                    [] ct = ContentTypeProposal -> ProposalDeserialize(b)
                    [] ct = ContentTypeCommit -> CommitDeserialize(b))

\* enum Content as a field: the u8 discriminant, then the content.
ContentSerialize(content) == << content.ctype >> \o ContentInnerSerialize(content)
ContentLen(content) == 1 + ContentInnerLen(content)

ContentDeserialize(b) ==
    IF b = << >> THEN ReadErr("EndOfStream")
    ELSE IF b[1] \notin ContentTypes THEN ReadErr("UnknownValue")
    ELSE ContentInnerDeserialize(Tail(b), b[1])

\* MLSContentAuthData: the signature, then the confirmation tag, which is
\* read exactly when the content is a commit.
AuthData(signature, confirmation_tag) ==
    [signature |-> signature, confirmation_tag |-> confirmation_tag]

AuthSerialize(auth) ==
    ByteVec(auth.signature)
        \o (IF IsSome(auth.confirmation_tag) THEN ByteVec(auth.confirmation_tag[1]) ELSE << >>)

AuthLen(auth) ==
    ByteVecLen(auth.signature)
        + (IF IsSome(auth.confirmation_tag) THEN ByteVecLen(auth.confirmation_tag[1]) ELSE 0)

ThenConfirmationTag(p, ct) ==
    IF ~p.ok THEN p
    ELSE IF ct = ContentTypeCommit THEN Then(p, SomeOf(ReadByteVec(p.rest)))
    ELSE ReadOk(Append(p.v, None), p.rest)
AuthOf(p) == IF p.ok THEN ReadOk(AuthData(p.v[1], p.v[2]), p.rest) ELSE p
AuthDeserialize(b, ct) == AuthOf(ThenConfirmationTag(ThenByteVec(Start(b)), ct))

\* struct MLSCiphertextContent
MLSCiphertextContent(content, auth, padding) ==
    [content |-> content, auth |-> auth, padding |-> padding]

\* impl Size for MLSCiphertextContent
CiphertextContentLen(x) == ContentInnerLen(x.content) + AuthLen(x.auth) + Len(x.padding)

\* impl Serialize for MLSCiphertextContent
CiphertextContentSerialize(x) ==
    ContentInnerSerialize(x.content) \o AuthSerialize(x.auth) \o x.padding

ThenAuthOfContent(p) ==
    IF ~p.ok THEN p ELSE Then(p, AuthDeserialize(p.rest, content_type(p.v[1])))
PaddingKept(p) ==
    IF ~p.ok THEN p ELSE ReadOk(MLSCiphertextContent(p.v[1], p.v[2], p.rest), << >>)
PaddingChecked(p) ==
    IF ~p.ok THEN p
    ELSE IF \E i \in 1 .. Len(p.rest) : p.rest[i] # 0
    THEN ReadErr("DecodingError: non-zero padding bytes discovered")
    ELSE ReadOk(MLSCiphertextContent(p.v[1], p.v[2], p.rest), << >>)

\* MLSCiphertextContent::tls_deserialize: the content by its type, the
\* authentication data, then everything left as padding.
CiphertextContentDeserialize_AnyPadding(bytes, ct) ==
    PaddingKept(ThenAuthOfContent(Then(Start(bytes), ContentInnerDeserialize(bytes, ct))))
CiphertextContentDeserialize(bytes, ct) ==
    PaddingChecked(ThenAuthOfContent(Then(Start(bytes), ContentInnerDeserialize(bytes, ct))))

\* enum Sender: the u8 discriminant, then the u32 index of Member and External.
SenderMember == 1
SenderExternal == 2
SenderNewMemberCommit == 3
SenderNewMemberProposal == 4
SenderOf(kind, index) == [kind |-> kind, index |-> index]
SenderHasIndex(kind) == kind \in {SenderMember, SenderExternal}

SenderSerialize(sender) ==
    << sender.kind >> \o (IF SenderHasIndex(sender.kind) THEN UInt(sender.index, 4) ELSE << >>)

SenderLen(sender) == 1 + (IF SenderHasIndex(sender.kind) THEN 4 ELSE 0)

SenderIndexed(kind, r) == IF r.ok THEN ReadOk(SenderOf(kind, r.v), r.rest) ELSE r
SenderDeserialize(b) ==
    IF b = << >> THEN ReadErr("EndOfStream")
    ELSE IF b[1] \notin SenderMember .. SenderNewMemberProposal THEN ReadErr("UnknownValue")
    ELSE IF SenderHasIndex(b[1]) THEN SenderIndexed(b[1], ReadUInt(Tail(b), 4))
    ELSE ReadOk(SenderOf(b[1], 0), Tail(b))

\* struct MLSContent
MLSContent(group_id, epoch, sender, authenticated_data, content) ==
    [group_id |-> group_id, epoch |-> epoch, sender |-> sender,
     authenticated_data |-> authenticated_data, content |-> content]

MLSContentSerialize(c) ==
    ByteVec(c.group_id) \o UInt(c.epoch, 8) \o SenderSerialize(c.sender)
        \o ByteVec(c.authenticated_data) \o ContentSerialize(c.content)

MLSContentLen(c) ==
    ByteVecLen(c.group_id) + 8 + SenderLen(c.sender)
        + ByteVecLen(c.authenticated_data) + ContentLen(c.content)

ThenSender(p) == Then(p, SenderDeserialize(p.rest))
ThenContent(p) == Then(p, ContentDeserialize(p.rest))
MLSContentOf(p) ==
    IF p.ok THEN ReadOk(MLSContent(p.v[1], p.v[2], p.v[3], p.v[4], p.v[5]), p.rest) ELSE p
MLSContentDeserialize(b) ==
    MLSContentOf(ThenContent(ThenByteVec(ThenSender(ThenUInt(ThenByteVec(Start(b)), 8)))))

\* struct MLSPlaintext; the membership tag is a length-prefixed MAC.
MLSPlaintext(content, auth, membership_tag) ==
    [content |-> content, auth |-> auth, membership_tag |-> membership_tag]

\* impl Size for MLSPlaintext
PlaintextLen(x) ==
    MLSContentLen(x.content) + AuthLen(x.auth)
        + (IF IsSome(x.membership_tag) THEN ByteVecLen(x.membership_tag[1]) ELSE 0)

\* impl Serialize for MLSPlaintext
PlaintextSerialize(x) ==
    MLSContentSerialize(x.content) \o AuthSerialize(x.auth)
        \o (IF IsSome(x.membership_tag) THEN ByteVec(x.membership_tag[1]) ELSE << >>)

\* impl Deserialize for MLSPlaintext
ThenAuthOfMLSContent(p) ==
    IF ~p.ok THEN p ELSE Then(p, AuthDeserialize(p.rest, content_type(p.v[1].content)))
\* A membership tag read whenever bytes are left, whoever the sender is.
ThenMembershipTag_ReadsWhatIsLeft(p) ==
    IF ~p.ok THEN p
    ELSE IF p.rest # << >> THEN Then(p, SomeOf(ReadByteVec(p.rest)))
    ELSE ReadOk(Append(p.v, None), p.rest)
ThenMembershipTag(p) ==
    IF ~p.ok THEN p
    ELSE IF p.v[1].sender.kind = SenderMember THEN Then(p, SomeOf(ReadByteVec(p.rest)))
    ELSE ReadOk(Append(p.v, None), p.rest)
PlaintextOf(p) == IF p.ok THEN ReadOk(MLSPlaintext(p.v[1], p.v[2], p.v[3]), p.rest) ELSE p
PlaintextDeserialize(bytes) ==
    PlaintextOf(ThenMembershipTag(ThenAuthOfMLSContent(
        Then(Start(bytes), MLSContentDeserialize(bytes)))))

\* CredentialType::BASIC, CredentialType::X509
BASIC == 1
X509 == 2

\* enum Credential: Basic(identifier), X509(certificate chain), Custom.
CredentialBasic(identifier) ==
    [variant |-> "Basic", credential_type |-> BASIC, data |-> identifier, chain |-> << >>]
CredentialX509(chain) ==
    [variant |-> "X509", credential_type |-> X509, data |-> << >>, chain |-> chain]

\* CustomCredential::new, as a Credential::Custom
CustomCredentialNew(credential_type, data) ==
    [variant |-> "Custom", credential_type |-> credential_type, data |-> data,
     chain |-> << >>]

\* Credential::credential_type
credential_type_of(c) ==
    CASE c.variant = "Basic" -> BASIC
      [] c.variant = "X509" -> X509
      [] c.variant = "Custom" -> c.credential_type

\* A certificate chain: the certificates, each length-prefixed, in a vector
\* prefixed with its length in bytes.
RECURSIVE CertificatesSerialize(_)
CertificatesSerialize(chain) ==
    IF chain = << >> THEN << >>
    ELSE ByteVec(Head(chain)) \o CertificatesSerialize(Tail(chain))

RECURSIVE CertificatesDeserialize(_), CertificatesAfter(_)
CertificatesDeserialize(b) ==
    IF b = << >> THEN ReadOk(<< >>, << >>) ELSE CertificatesAfter(ReadByteVec(b))
CertificatesAfter(p) ==
    IF ~p.ok THEN p ELSE PrependTo(p.v, CertificatesDeserialize(p.rest))

ChainSerialize(chain) == ByteVec(CertificatesSerialize(chain))

ChainIn(v) == IF ~v.ok THEN v ELSE WithRest(CertificatesDeserialize(v.v), v.rest)
ChainDeserialize(b) == ChainIn(ReadByteVec(b))

\* A serializer's result: the bytes written, or the error.
Written(bytes) == [ok |-> TRUE, err |-> "", bytes |-> bytes]
WriteErr(e) == [ok |-> FALSE, err |-> e, bytes |-> << >>]

\* impl Serialize for Credential
CredentialSerialize_Unchecked(c) ==
    LET type_bytes == UInt(credential_type_of(c), 2)
    IN  CASE c.variant = "Basic" -> Written(type_bytes \o ByteVec(c.data))
          [] c.variant = "X509" -> Written(type_bytes \o ChainSerialize(c.chain))
          [] c.variant = "Custom" -> Written(type_bytes \o ByteVec(c.data))
CredentialSerialize(c) ==
    LET type_bytes == UInt(credential_type_of(c), 2)
    IN  CASE c.variant = "Basic" -> Written(type_bytes \o ByteVec(c.data))
          [] c.variant = "X509" -> Written(type_bytes \o ChainSerialize(c.chain))
          [] c.variant = "Custom" ->
                IF c.credential_type <= 2
                THEN WriteErr("EncodingError: custom credential types can not be set to defined values of 0-2")
                ELSE Written(type_bytes \o ByteVec(c.data))

\* impl Deserialize for Credential
BasicOf(r) == IF r.ok THEN ReadOk(CredentialBasic(r.v), r.rest) ELSE r
X509Of(r) == IF r.ok THEN ReadOk(CredentialX509(r.v), r.rest) ELSE r
CustomOf(t, r) == IF r.ok THEN ReadOk(CustomCredentialNew(t, r.v), r.rest) ELSE r
CredentialOfType(t) ==
    IF ~t.ok THEN t
    ELSE IF t.v = BASIC THEN BasicOf(ReadByteVec(t.rest))
    ELSE IF t.v = X509 THEN X509Of(ChainDeserialize(t.rest))
    ELSE CustomOf(t.v, ReadByteVec(t.rest))
CredentialDeserialize(bytes) == CredentialOfType(ReadUInt(bytes, 2))


(***************************************************************************)
(* Key package validation (aws-mls/src/key_package/validator.rs).  The     *)
(* key package's own code (its signing and verification), the leaf node    *)
(* validator and the cipher suite provider are not part of the sources:    *)
(* they are modelled from the specification.  A signature is the triple of *)
(* the key that made it, the signature scheme of the cipher suite it was   *)
(* made under, and the content it covers; it verifies under a key, a       *)
(* provider and a content exactly when the three agree.  Signature and     *)
(* HPKE keys are small numbers; 0 is no valid public key.                  *)
(***************************************************************************)
MaxProtocolVersion == 2
MaxCipherSuite == 3
MaxKey == 2
MaxTime == 2
MaxEdits == 2

ProtocolVersions == 1 .. MaxProtocolVersion
CipherSuites == 1 .. MaxCipherSuite
HpkeKeys == 0 .. MaxKey
SignatureKeys == 1 .. MaxKey
Times == 0 .. MaxTime

\* Cipher suites 1 and 3 sign with the same scheme, cipher suite 2 with
\* another one.
SignatureScheme(cipher_suite) == cipher_suite % 2

Sign(key, cipher_suite, content) ==
    [key |-> key, scheme |-> SignatureScheme(cipher_suite), over |-> content]
RandomSignature == [key |-> 0, scheme |-> 0, over |-> << >>]
Verify(cipher_suite, key, content, signature) ==
    signature = Sign(key, cipher_suite, content)

kem_public_key_validate(key) == key # 0

Lifetime(not_before, not_after) == [not_before |-> not_before, not_after |-> not_after]
WithinLifetime(lifetime, time) ==
    lifetime.not_before <= time /\ time <= lifetime.not_after
LeafNodeSourceKeyPackage(lifetime) == [kind |-> "KeyPackage", lifetime |-> lifetime]
LeafNodeSourceUpdate == [kind |-> "Update", lifetime |-> Lifetime(0, 0)]

LeafNodeTBS(leaf_node) ==
    << leaf_node.public_key, leaf_node.signing_identity, leaf_node.leaf_node_source >>
LeafNodeSign(leaf_node, cipher_suite) ==
    [leaf_node EXCEPT !.signature =
        Sign(leaf_node.signing_identity.signature_key, cipher_suite, LeafNodeTBS(leaf_node))]

KeyPackageTBS(package) ==
    << package.version, package.cipher_suite, package.hpke_init_key, package.leaf_node >>
KeyPackageSign(package) ==
    [package EXCEPT !.signature =
        Sign(package.leaf_node.signing_identity.signature_key, package.cipher_suite,
             KeyPackageTBS(package))]
\* KeyPackage::verify
KeyPackageVerify(package, cipher_suite, key) ==
    Verify(cipher_suite, key, KeyPackageTBS(package), package.signature)

\* A key package as its owner generates it: the leaf node signed, then the
\* package signed, both with the owner's signature key.
KeyPackageGenerate(version, cipher_suite, signature_key, init_key, leaf_key, lifetime) ==
    KeyPackageSign(
        [version |-> version, cipher_suite |-> cipher_suite, hpke_init_key |-> init_key,
         leaf_node |-> LeafNodeSign(
             [public_key |-> leaf_key,
              signing_identity |-> [signature_key |-> signature_key],
              leaf_node_source |-> LeafNodeSourceKeyPackage(lifetime),
              signature |-> RandomSignature], cipher_suite),
         signature |-> RandomSignature])

ValidOk(v) == [ok |-> TRUE, err |-> "", found |-> 0, expected |-> 0, v |-> v]
ValidErrOf(e, found, expected) ==
    [ok |-> FALSE, err |-> e, found |-> found, expected |-> expected, v |-> 0]
ValidErr(e) == ValidErrOf(e, 0, 0)

\* LeafNodeValidator::check_if_valid: the leaf node's signature, the source
\* its context asks for, and its lifetime when the context carries a time.
LeafNodeCheckIfValid(cipher_suite, leaf_node, context) ==
    IF ~Verify(cipher_suite, leaf_node.signing_identity.signature_key,
               LeafNodeTBS(leaf_node), leaf_node.signature)
    THEN ValidErr("LeafNodeValidationError::SignatureError")
    ELSE IF context.kind = "Add" /\ leaf_node.leaf_node_source.kind # "KeyPackage"
    THEN ValidErr("LeafNodeValidationError::InvalidLeafNodeSource")
    ELSE IF /\ context.kind = "Add"
            /\ IsSome(context.time)
            /\ ~WithinLifetime(leaf_node.leaf_node_source.lifetime, context.time[1])
    THEN ValidErr("LeafNodeValidationError::InvalidLifetime")
    ELSE ValidOk(0)

\* KeyPackageValidator::new
KeyPackageValidatorNew(protocol_version, cipher_suite) ==
    [protocol_version |-> protocol_version, cipher_suite |-> cipher_suite]

KeyPackageValidationOptions(apply_lifetime_check) ==
    [apply_lifetime_check |-> apply_lifetime_check]

\* KeyPackageValidator::check_signature
check_signature_Unverified(self, package) == ValidOk(0)
check_signature(self, package) ==
    IF KeyPackageVerify(package, self.cipher_suite,
                        package.leaf_node.signing_identity.signature_key)
    THEN ValidOk(0)
    ELSE ValidErr("SignatureError")

\* KeyPackageValidator::validate_properties
validate_properties_NoInitKeyCheck(self, package) ==
    IF ~check_signature(self, package).ok THEN check_signature(self, package)
    ELSE IF package.version # self.protocol_version
    THEN ValidErrOf("InvalidProtocolVersion", package.version, self.protocol_version)
    ELSE IF package.cipher_suite # self.cipher_suite
    THEN ValidErrOf("InvalidCipherSuite", package.cipher_suite, self.cipher_suite)
    ELSE ValidOk(0)
validate_properties_FoundIsExpected(self, package) ==
    IF ~check_signature(self, package).ok THEN check_signature(self, package)
    ELSE IF package.version # self.protocol_version
    THEN ValidErrOf("InvalidProtocolVersion", self.protocol_version, package.version)
    ELSE IF package.cipher_suite # self.cipher_suite
    THEN ValidErrOf("InvalidCipherSuite", self.cipher_suite, package.cipher_suite)
    ELSE IF ~kem_public_key_validate(package.hpke_init_key) THEN ValidErr("InvalidInitKey")
    ELSE IF package.hpke_init_key = package.leaf_node.public_key
    THEN ValidErr("InitLeafKeyEquality")
    ELSE ValidOk(0)
\* validate_properties that compares version and cipher suite before it
\* verifies the signature.
validate_properties_SignatureLast(self, package) ==
    IF package.version # self.protocol_version
    THEN ValidErrOf("InvalidProtocolVersion", package.version, self.protocol_version)
    ELSE IF package.cipher_suite # self.cipher_suite
    THEN ValidErrOf("InvalidCipherSuite", package.cipher_suite, self.cipher_suite)
    ELSE IF ~check_signature(self, package).ok THEN check_signature(self, package)
    ELSE IF ~kem_public_key_validate(package.hpke_init_key) THEN ValidErr("InvalidInitKey")
    ELSE IF package.hpke_init_key = package.leaf_node.public_key
    THEN ValidErr("InitLeafKeyEquality")
    ELSE ValidOk(0)
validate_properties(self, package) ==
    IF ~check_signature(self, package).ok THEN check_signature(self, package)
    ELSE IF package.version # self.protocol_version
    THEN ValidErrOf("InvalidProtocolVersion", package.version, self.protocol_version)
    ELSE IF package.cipher_suite # self.cipher_suite
    THEN ValidErrOf("InvalidCipherSuite", package.cipher_suite, self.cipher_suite)
    ELSE IF ~kem_public_key_validate(package.hpke_init_key) THEN ValidErr("InvalidInitKey")
    ELSE IF package.hpke_init_key = package.leaf_node.public_key
    THEN ValidErr("InitLeafKeyEquality")
    ELSE ValidOk(0)

\* KeyPackageValidator::validation_context
validation_context_NoTime(options) == [kind |-> "Add", time |-> None]
validation_context(options) == [kind |-> "Add", time |-> options.apply_lifetime_check]

\* KeyPackageValidator::check_if_valid; the value of a success is the
\* output's expiration_timestamp.
check_if_valid(self, package, options) ==
    IF ~validate_properties(self, package).ok THEN validate_properties(self, package)
    ELSE IF ~LeafNodeCheckIfValid(self.cipher_suite, package.leaf_node,
                                  validation_context(options)).ok
    THEN LeafNodeCheckIfValid(self.cipher_suite, package.leaf_node,
                              validation_context(options))
    ELSE IF package.leaf_node.leaf_node_source.kind = "KeyPackage"
    THEN ValidOk(package.leaf_node.leaf_node_source.lifetime.not_after)
    ELSE ValidErr("MissingKeyLifetime")

\* Nothing under validation yet.
NoValidation ==
    [kind |-> "none", stage |-> "idle", subject |-> << >>, edits |-> 0,
     args |-> << >>, out |-> ValidErr("")]

\* Nobody holds the clients mutex, no client exists, every task is idle.
MaxTasks == 2
MaxStates == 2
NoRpc ==
    [guard |-> 0, groups |-> << >>, made |-> 0, returned |-> {},
     task |-> [t \in 1 .. MaxTasks |->
                  [pc |-> "idle", call |-> "none", state_id |-> 0, client |-> 0]]]

\* Nothing read, nothing written, nothing constructed yet.
NoRead == ReadErr("")
NoWrite == WriteErr("")
NoCodec ==
    [kind |-> "none", stage |-> "idle", value |-> << >>, written |-> NoWrite,
     read_as |-> 0, out |-> NoRead]

(***************************************************************************)
(* The system: client c owns sessions[c] once has_session[c].  `net` holds *)
(* every packet a session handed back to its caller, `welcomes` every      *)
(* Welcome.  `commits` and `updates` count the commits and the update leaf *)
(* keys drawn so far (each is named by its number).  `accepted` and        *)
(* `start_epoch` record, per session, how many commits it has accepted and *)
(* the epoch it started in.  `codec` holds one value on its way through    *)
(* the TLS codec, `validation` one value on its way through a validator    *)
(* (key package, message signature, membership tag, X.509 identity), and   *)
(* `rpc` the tasks of the RPC harness and the mutex they share.            *)
(***************************************************************************)
VARIABLES sessions, has_session, net, welcomes, commits, updates, accepted, start_epoch,
          codec, validation, rpc

vars == << sessions, has_session, net, welcomes, commits, updates, accepted, start_epoch,
          codec, validation, rpc >>

Payloads == {1, 2}

\* The options each client opens its sessions with.
EncryptControls(c) == c % 2 = 0

\* The next commit's name and the next update leaf key (distinct from any
\* commit's name).
NextCommitId == commits + 1
NextUpdateKey == 0 - (updates + 1)

Epoch(c) == sessions[c].protocol.epoch
Pending(c) == sessions[c].pending_commit

ProposalPackets == { m \in net : m.kind = "proposal" }
ApplicationPackets == { m \in net : m.kind = "application" }

\* Client 0 has created the group (Session::create).
Init ==
    /\ sessions = [c \in Clients |-> IF c = 0 THEN create(0, EncryptControls(0)) ELSE NoSession]
    /\ has_session = [c \in Clients |-> c = 0]
    /\ net = {}
    /\ welcomes = {}
    /\ commits = 0
    /\ updates = 0
    /\ accepted = [c \in Clients |-> 0]
    /\ start_epoch = [c \in Clients |-> 0]
    /\ codec = NoCodec
    /\ validation = NoValidation
    /\ rpc = NoRpc

\* Client c joins from Welcome w and the tree exported by session j.
Join(c, w, j) ==
    /\ ~has_session[c]
    /\ has_session[j]
    /\ LET o == join(c, w, export_tree(sessions[j]), EncryptControls(c))
       IN  /\ o.ret = "Ok"
           /\ sessions' = [sessions EXCEPT ![c] = o.s]
           /\ has_session' = [has_session EXCEPT ![c] = TRUE]
           /\ start_epoch' = [start_epoch EXCEPT ![c] = o.s.protocol.epoch]
    /\ UNCHANGED << net, welcomes, commits, updates, accepted, codec, validation, rpc >>

\* A call of commit: the packets returned go to the caller, who may send them.
\* The commit's name is used up once a commit has been stored.
Committed(i, o) ==
    /\ has_session[i]
    /\ sessions' = [sessions EXCEPT ![i] = o.s]
    /\ IF o.s.pending_commit # sessions[i].pending_commit
       THEN commits < MaxCommits /\ commits' = commits + 1
       ELSE UNCHANGED commits
    /\ net' = net \cup Range(o.packet)
    /\ welcomes' = welcomes \cup Range(o.welcome)
    /\ UNCHANGED << has_session, updates, accepted, start_epoch, codec, validation, rpc >>

Commit(i, proposals, ser) == Committed(i, commit(sessions[i], proposals, ser, NextCommitId))

\* Group::commit_proposals called with update_path = false, for an Add-only commit.
CommitNoPath(i, proposals) ==
    /\ proposals # << >>
    /\ \A k \in 1 .. Len(proposals) : proposals[k].type = "add"
    /\ Committed(i, CommitOn(sessions[i], proposals, FALSE, "none", NextCommitId))

ProcessIncomingBytes(i, data) ==
    /\ has_session[i]
    /\ LET o == process_incoming_bytes(sessions[i], data)
       IN  /\ sessions' = [sessions EXCEPT ![i] = o.s]
           /\ accepted' = IF o.ret = "Ok" /\ o.kind = "commit"
                          THEN [accepted EXCEPT ![i] = @ + 1]
                          ELSE accepted
    /\ UNCHANGED << has_session, net, welcomes, commits, updates, start_epoch, codec, validation, rpc >>

ApplyPendingCommit(i, group_ok) ==
    /\ has_session[i]
    /\ LET o == apply_pending_commit(sessions[i], group_ok)
       IN  /\ sessions' = [sessions EXCEPT ![i] = o.s]
           /\ accepted' = IF o.ret = "Ok" THEN [accepted EXCEPT ![i] = @ + 1] ELSE accepted
    /\ UNCHANGED << has_session, net, welcomes, commits, updates, start_epoch, codec, validation, rpc >>

ClearPendingCommit(i) ==
    /\ has_session[i]
    /\ sessions' = [sessions EXCEPT ![i] = clear_pending_commit(sessions[i])]
    /\ UNCHANGED << has_session, net, welcomes, commits, updates, accepted, start_epoch, codec, validation, rpc >>

\* A call that returns a Proposal to the caller.
Returned(i, o) ==
    /\ has_session[i]
    /\ sessions' = [sessions EXCEPT ![i] = o.s]
    /\ UNCHANGED << has_session, net, welcomes, commits, updates, accepted, start_epoch, codec, validation, rpc >>

AddProposalCall(i, c) == Returned(i, add_proposal(sessions[i], c))
UpdateProposalCall(i) == Returned(i, update_proposal(sessions[i], NextUpdateKey))
RemoveProposalCall(i, index) == Returned(i, remove_proposal(sessions[i], index))

\* A call that sends a proposal by reference; `draws` fresh leaf keys are used.
Proposed(i, o, draws) ==
    /\ has_session[i]
    /\ sessions' = [sessions EXCEPT ![i] = o.s]
    /\ IF IsSome(o.packet)
       THEN /\ Cardinality(ProposalPackets) < MaxProposalMsgs
            /\ updates + draws <= MaxUpdates
            /\ updates' = updates + draws
       ELSE UNCHANGED updates
    /\ net' = net \cup Range(o.packet)
    /\ UNCHANGED << has_session, welcomes, commits, accepted, start_epoch, codec, validation, rpc >>

ProposeAdd(i, c) == Proposed(i, propose_add(sessions[i], c), 0)
ProposeUpdate(i) == Proposed(i, propose_update(sessions[i], NextUpdateKey), 1)
ProposeRemove(i, index) == Proposed(i, propose_remove(sessions[i], index), 0)

EncryptApplicationData(i, data) ==
    /\ has_session[i]
    /\ LET o == encrypt_application_data(sessions[i], data)
       IN  /\ sessions' = [sessions EXCEPT ![i] = o.s]
           /\ IsSome(o.packet) => Cardinality(ApplicationPackets) < MaxAppMsgs
           /\ net' = net \cup Range(o.packet)
    /\ UNCHANGED << has_session, welcomes, commits, updates, accepted, start_epoch, codec, validation, rpc >>

\* The proposals a caller can hand to commit by value: the ones the proposal
\* operations of its session return.
ProposalValues(i) ==
    { add_proposal(sessions[i], c).p : c \in Clients }
        \cup { remove_proposal(sessions[i], l).p : l \in 0 .. (MaxClients - 1) }
        \cup { update_proposal(sessions[i], NextUpdateKey).p }

ProposalLists(i) == SeqsUpTo(ProposalValues(i), MaxByValue)

Indices == 0 .. (MaxClients - 1)

\* The session operations around commits: commit, apply, clear, receive, join,
\* and an Update sent by reference.
Next ==
    \/ \E c, j \in Clients : \E w \in welcomes : Join(c, w, j)
    \/ \E i \in Clients : \E ps \in ProposalLists(i) :
           \E ser \in {"none", "commit", "welcome"} : Commit(i, ps, ser)
    \/ \E i \in Clients : \E data \in net \cup { Garbage } : ProcessIncomingBytes(i, data)
    \/ \E i \in Clients : \E group_ok \in BOOLEAN : ApplyPendingCommit(i, group_ok)
    \/ \E i \in Clients : ClearPendingCommit(i)
    \/ \E i \in Clients : ProposeUpdate(i)

Spec == Init /\ [][Next]_vars

\* Every session operation, over histories of at most MaxCommitsAll commits
\* and MaxSessionsAll sessions.
InBoundsAll ==
    /\ commits' <= MaxCommitsAll
    /\ Cardinality({ c \in Clients : has_session'[c] }) <= MaxSessionsAll

NextAll ==
    \/ \E c, j \in Clients : \E w \in welcomes : Join(c, w, j) /\ InBoundsAll
    \/ \E i \in Clients : \E ps \in ProposalLists(i) :
           \E ser \in {"none", "commit", "welcome"} : Commit(i, ps, ser) /\ InBoundsAll
    \/ \E i \in Clients : \E ps \in ProposalLists(i) : CommitNoPath(i, ps) /\ InBoundsAll
    \/ \E i \in Clients : \E data \in net \cup { Garbage } : ProcessIncomingBytes(i, data)
    \/ \E i \in Clients : \E group_ok \in BOOLEAN : ApplyPendingCommit(i, group_ok)
    \/ \E i \in Clients : ClearPendingCommit(i)
    \/ \E i, c \in Clients : AddProposalCall(i, c)
    \/ \E i \in Clients : UpdateProposalCall(i)
    \/ \E i \in Clients : \E l \in Indices : RemoveProposalCall(i, l)
    \/ \E i, c \in Clients : ProposeAdd(i, c)
    \/ \E i \in Clients : ProposeUpdate(i)
    \/ \E i \in Clients : \E l \in Indices : ProposeRemove(i, l)
    \/ \E i \in Clients : \E data \in Payloads : EncryptApplicationData(i, data)

SpecAll == Init /\ [][NextAll]_vars

(***************************************************************************)
(* Encoding and decoding of one value: `codec` holds the value             *)
(* constructed, what its serializer returned, and what the deserializer    *)
(* returned for those bytes.                                               *)
(***************************************************************************)
Options(S) == { None } \cup { Some(x) : x \in S }
Paddings == SeqsUpTo(ByteValues, MaxPaddingLen)
WireProposals == { WireRemove(l) : l \in ByteValues }
WireCommits ==
    { WireCommit(ps, path) : ps \in SeqsUpTo(WireProposals, 1), path \in Options(ByteStrings) }
Contents ==
    { ContentOf(ContentTypeApplication, d) : d \in ByteStrings }
        \cup { ContentOf(ContentTypeProposal, p) : p \in WireProposals }
        \cup { ContentOf(ContentTypeCommit, c) : c \in WireCommits }
AuthDatas == { AuthData(s, t) : s \in ByteStrings, t \in Options(ByteStrings) }
CiphertextContents ==
    { MLSCiphertextContent(c, a, p) : c \in Contents, a \in AuthDatas, p \in Paddings }
Senders ==
    { SenderOf(k, i) : k \in {SenderMember, SenderExternal}, i \in ByteValues }
        \cup { SenderOf(k, 0) : k \in {SenderNewMemberCommit, SenderNewMemberProposal} }
MLSContents ==
    { MLSContent(g, e, s, << >>, c) :
          g \in ByteStrings, e \in ByteValues, s \in Senders, c \in Contents }
MembershipTags == Options(ByteStrings)
CredentialTypes == 0 .. MaxCredentialType
DefinedCredentials ==
    { CredentialBasic(d) : d \in ByteStrings }
        \cup { CredentialX509(ch) : ch \in SeqsUpTo(ByteStrings, 1) }

sessionVars == << sessions, has_session, net, welcomes, commits, updates, accepted, start_epoch >>

\* x.tls_serialize_detached() of an MLSCiphertextContent
SerializeCiphertextContent ==
    /\ codec.stage = "idle"
    /\ \E x \in CiphertextContents :
           codec' = [kind |-> "ciphertext_content", stage |-> "serialized", value |-> x,
                     written |-> Written(CiphertextContentSerialize(x)), read_as |-> 0,
                     out |-> NoRead]
    /\ UNCHANGED << sessionVars, validation, rpc >>

\* MLSCiphertextContent::tls_deserialize(bytes, ct) of the bytes written
DeserializeCiphertextContent(ct) ==
    /\ codec.kind = "ciphertext_content"
    /\ codec.stage = "serialized"
    /\ codec' = [codec EXCEPT !.stage = "deserialized", !.read_as = ct,
                              !.out = CiphertextContentDeserialize(codec.written.bytes, ct)]
    /\ UNCHANGED << sessionVars, validation, rpc >>

\* x.tls_serialize_detached() of an MLSPlaintext
SerializePlaintext ==
    /\ codec.stage = "idle"
    /\ \E c \in MLSContents : \E a \in AuthDatas : \E t \in MembershipTags :
           LET x == MLSPlaintext(c, a, t)
           IN  codec' = [kind |-> "plaintext", stage |-> "serialized", value |-> x,
                         written |-> Written(PlaintextSerialize(x)), read_as |-> 0,
                         out |-> NoRead]
    /\ UNCHANGED << sessionVars, validation, rpc >>

\* MLSPlaintext::tls_deserialize of the bytes written
DeserializePlaintext ==
    /\ codec.kind = "plaintext"
    /\ codec.stage = "serialized"
    /\ codec' = [codec EXCEPT !.stage = "deserialized",
                              !.out = PlaintextDeserialize(codec.written.bytes)]
    /\ UNCHANGED << sessionVars, validation, rpc >>

\* Credential::Custom(CustomCredential::new(credential_type, data))
NewCustomCredential ==
    /\ codec.stage = "idle"
    /\ \E t \in CredentialTypes : \E data \in ByteStrings :
           codec' = [kind |-> "credential", stage |-> "constructed",
                     value |-> CustomCredentialNew(t, data), written |-> NoWrite,
                     read_as |-> 0, out |-> NoRead]
    /\ UNCHANGED << sessionVars, validation, rpc >>

\* A Basic or an X509 credential.
NewCredential ==
    /\ codec.stage = "idle"
    /\ \E c \in DefinedCredentials :
           codec' = [kind |-> "credential", stage |-> "constructed", value |-> c,
                     written |-> NoWrite, read_as |-> 0, out |-> NoRead]
    /\ UNCHANGED << sessionVars, validation, rpc >>

\* credential.tls_serialize_detached()
SerializeCredential ==
    /\ codec.kind = "credential"
    /\ codec.stage = "constructed"
    /\ codec' = [codec EXCEPT !.stage = "serialized",
                              !.written = CredentialSerialize(codec.value)]
    /\ UNCHANGED << sessionVars, validation, rpc >>

\* Credential::tls_deserialize of the bytes written
DeserializeCredential ==
    /\ codec.kind = "credential"
    /\ codec.stage = "serialized"
    /\ codec.written.ok
    /\ codec' = [codec EXCEPT !.stage = "deserialized",
                              !.out = CredentialDeserialize(codec.written.bytes)]
    /\ UNCHANGED << sessionVars, validation, rpc >>

\* The encodings a peer may send: any u16 type, then length-prefixed bytes.
ReceiveCredential ==
    /\ codec.stage = "idle"
    /\ \E t \in CredentialTypes : \E data \in ByteStrings :
           codec' = [kind |-> "received_credential", stage |-> "received",
                     value |-> UInt(t, 2) \o ByteVec(data), written |-> NoWrite,
                     read_as |-> t, out |-> NoRead]
    /\ UNCHANGED << sessionVars, validation, rpc >>

\* Credential::tls_deserialize of the bytes received
DecodeCredential ==
    /\ codec.kind = "received_credential"
    /\ codec.stage = "received"
    /\ codec' = [codec EXCEPT !.stage = "decoded", !.out = CredentialDeserialize(codec.value)]
    /\ UNCHANGED << sessionVars, validation, rpc >>

\* tls_serialize_detached() of the credential decoded
ReencodeCredential ==
    /\ codec.kind = "received_credential"
    /\ codec.stage = "decoded"
    /\ codec.out.ok
    /\ codec' = [codec EXCEPT !.stage = "reencoded",
                              !.written = CredentialSerialize(codec.out.v)]
    /\ UNCHANGED << sessionVars, validation, rpc >>

NextCodec ==
    \/ SerializeCiphertextContent
    \/ \E ct \in ContentTypes : DeserializeCiphertextContent(ct)
    \/ SerializePlaintext
    \/ DeserializePlaintext
    \/ NewCustomCredential
    \/ NewCredential
    \/ SerializeCredential
    \/ DeserializeCredential
    \/ ReceiveCredential
    \/ DecodeCredential
    \/ ReencodeCredential

SpecCodec == Init /\ [][NextCodec]_vars

(***************************************************************************)
(* Properties.                                                             *)
(***************************************************************************)
Live == { c \in Clients : has_session[c] }
Members == { c \in Live : sessions[c].protocol.active }
CommitPackets == { m \in net : m.kind = "commit" }
SerFaults == {"none", "commit", "welcome"}

\* Session i accepts commit m: by apply_pending_commit when m is its pending
\* commit, by process_incoming_bytes otherwise.
AcceptOf(i, m) ==
    IF Pending(i) = Some(m)
    THEN LET a == apply_pending_commit(sessions[i], TRUE)
         IN  [ret |-> a.ret, upd |-> a.upd, s |-> a.s]
    ELSE LET r == process_incoming_bytes(sessions[i], m)
         IN  [ret |-> r.ret, upd |-> r.upd, s |-> r.s]

KnownCommits(i) == CommitPackets \cup Range(Pending(i))

\* What session i gets from each commit it can accept now.
Accepts(i) == { o \in { AcceptOf(i, m) : m \in KnownCommits(i) } : o.ret = "Ok" }

\* C1: a session that processes the commit packet it has pending gets
\* CantProcessMessageFromSelf, stays in the epoch the commit was made in and
\* keeps the pending commit; apply_pending_commit then succeeds (the group
\* accepting) and moves it to the next epoch.
C1_OwnCommitIsRejected ==
    \A i \in Live :
        IsSome(Pending(i)) =>
            LET m == Pending(i)[1]
                o == process_incoming_bytes(sessions[i], m)
                a == apply_pending_commit(o.s, TRUE)
            IN  /\ o.ret = "CantProcessMessageFromSelf"
                /\ o.s.protocol.epoch = m.epoch
                /\ o.s.protocol = sessions[i].protocol
                /\ o.s.pending_commit = Some(m)
                /\ a.ret = "Ok"
                /\ a.upd.epoch = m.epoch + 1
                /\ a.s.protocol.epoch = m.epoch + 1

\* A member of a group of two or more holds a pending commit whose packet it
\* was handed, and processing that packet is refused as its own.
C1_Witness ==
    \E i \in Live :
        /\ IsSome(Pending(i))
        /\ Pending(i)[1] \in net
        /\ Cardinality(Members) >= 2
        /\ process_incoming_bytes(sessions[i], Pending(i)[1]).ret = "CantProcessMessageFromSelf"

\* A step in which session i loses its pending commit is an apply, a clear or
\* the processing of a received commit.
PendingDroppedBy(i) ==
    \/ \E group_ok \in BOOLEAN : ApplyPendingCommit(i, group_ok)
    \/ ClearPendingCommit(i)
    \/ \E m \in CommitPackets :
           /\ ProcessIncomingBytes(i, m)
           /\ process_incoming_bytes(sessions[i], m).ret = "Ok"

C2_Refused ==
    \A i \in Live : \A ps \in ProposalLists(i) : \A ser \in SerFaults :
        LET o == commit(sessions[i], ps, ser, NextCommitId)
        IN  /\ IsSome(Pending(i)) =>
                /\ o.ret = "ExistingPendingCommit"
                /\ o.s = sessions[i]
                /\ o.packet = None
                /\ o.welcome = None
            /\ o.ret = "Ok" => IsNone(Pending(i)) /\ IsSome(o.s.pending_commit)

\* C2: commit on a session that holds a pending commit returns
\* ExistingPendingCommit and leaves the session as it was, handing out no
\* packet; a commit succeeds only without a pending commit and leaves one, and
\* a pending commit goes away only by apply_pending_commit,
\* clear_pending_commit or the processing of a received commit.
C2_CommitsAreSerial ==
    /\ []C2_Refused
    /\ [][\A i \in Clients :
            (has_session[i] /\ IsSome(Pending(i)) /\ IsNone(sessions'[i].pending_commit))
                => PendingDroppedBy(i)]_vars

\* Client 0 has made two successful commits and holds the second as pending.
C2_Witness ==
    /\ IsSome(Pending(0))
    /\ \E m \in CommitPackets :
           /\ m.sender = 0
           /\ m.id # Pending(0)[1].id
           /\ accepted[0] >= 1

\* apply_pending_commit on s finds nothing and leaves s as it is.
NotFoundAt(s) ==
    \A group_ok \in BOOLEAN :
        LET a == apply_pending_commit(s, group_ok)
        IN  a.ret = "PendingCommitNotFound" /\ a.s = s /\ a.upd = NoUpdate

\* C3: apply_pending_commit without a pending commit returns
\* PendingCommitNotFound and changes nothing: in a session that holds none, in
\* a fresh session (created or joined), after an apply_pending_commit, after a
\* clear_pending_commit and after a received commit was processed.
C3_NothingToApply ==
    /\ NotFoundAt(create(0, EncryptControls(0)))
    /\ \A i \in Live :
        /\ IsNone(Pending(i)) => NotFoundAt(sessions[i])
        /\ \A group_ok \in BOOLEAN : NotFoundAt(apply_pending_commit(sessions[i], group_ok).s)
        /\ NotFoundAt(clear_pending_commit(sessions[i]))
        /\ \A m \in CommitPackets :
               LET o == process_incoming_bytes(sessions[i], m)
               IN  o.ret = "Ok" => NotFoundAt(o.s)
        /\ \A c \in Clients \ Live : \A w \in welcomes :
               LET o == join(c, w, export_tree(sessions[i]), EncryptControls(c))
               IN  o.ret = "Ok" => NotFoundAt(o.s)

\* A session that has applied a commit of its own holds none, beside a joined
\* session that holds none either.
C3_Witness ==
    /\ accepted[0] >= 1
    /\ IsNone(Pending(0))
    /\ \E c \in Live \ {0} : IsNone(Pending(c)) /\ accepted[c] = 0

\* C4 (as stated): the StateUpdate of the k-th commit a member accepts reports
\* epoch k.
C4_EpochIsAcceptCount ==
    \A i \in Live : \A a \in Accepts(i) : a.upd.epoch = accepted[i] + 1

\* C4: every accepted commit advances the member's epoch by exactly one: the
\* StateUpdate of the k-th commit a member accepts reports epoch e0 + k, where
\* e0 is the epoch its session started in, 0 for the creator of the group and
\* the Welcome's epoch for a member that joined.
C4_EpochAdvancesByOne ==
    /\ start_epoch[0] = 0
    /\ \A i \in Live :
        /\ Epoch(i) = start_epoch[i] + accepted[i]
        /\ \A a \in Accepts(i) :
            /\ a.upd.epoch = start_epoch[i] + accepted[i] + 1
            /\ a.s.protocol.epoch = Epoch(i) + 1

\* A member that joined in a later epoch has accepted a commit.
C4_Witness ==
    \E i \in Live : start_epoch[i] >= 1 /\ accepted[i] >= 1 /\ Epoch(i) = start_epoch[i] + 1

\* The epoch after each operation that is not the acceptance of a commit.
C5_Kept ==
    \A i \in Live :
        LET s == sessions[i]
            same(o) == o.s.protocol.epoch = s.protocol.epoch
        IN  /\ \A ps \in ProposalLists(i) : \A ser \in SerFaults :
                   same(commit(s, ps, ser, NextCommitId))
            /\ \A c \in Clients : same(add_proposal(s, c)) /\ same(propose_add(s, c))
            /\ same(update_proposal(s, NextUpdateKey))
            /\ same(propose_update(s, NextUpdateKey))
            /\ \A l \in Indices : same(remove_proposal(s, l)) /\ same(propose_remove(s, l))
            /\ \A data \in Payloads : same(encrypt_application_data(s, data))
            /\ \A m \in net \cup { Garbage } :
                   LET o == process_incoming_bytes(s, m)
                   IN  (o.ret # "Ok" \/ o.kind # "commit") => same(o)

\* C5: commit, the proposal operations (add_proposal, update_proposal,
\* remove_proposal, propose_add, propose_update, propose_remove),
\* encrypt_application_data and the processing of a received proposal or
\* application message leave the epoch as it is; a session's epoch changes only
\* in apply_pending_commit or in the processing of a received commit.
C5_EpochOnlyMovesOnAccept ==
    /\ []C5_Kept
    /\ [][\A i \in Clients :
            (has_session[i] /\ sessions'[i].protocol.epoch # Epoch(i)) =>
                \/ ApplyPendingCommit(i, TRUE)
                \/ \E m \in CommitPackets : ProcessIncomingBytes(i, m)]_vars

\* A session holds a pending commit, has a proposal in its buffer, and some
\* session has taken in an application message.
C5_Witness ==
    /\ \E i \in Live : IsSome(Pending(i)) /\ sessions[i].protocol.buf # << >>
    /\ \E j \in Live : sessions[j].protocol.seen # {}

\* C6 (as stated): when commit application fails inside the group, in
\* apply_pending_commit or in the processing of a received commit, the session
\* is left as it was before the call: same epoch, same group state, same
\* pending commit.
C6_FailureLeavesSession ==
    [][\A i \in Clients :
        /\ (/\ ApplyPendingCommit(i, FALSE)
            /\ apply_pending_commit(sessions[i], FALSE).ret = "ProtocolError")
               => sessions'[i] = sessions[i]
        /\ \A m \in CommitPackets :
               (/\ ProcessIncomingBytes(i, m)
                /\ process_incoming_bytes(sessions[i], m).ret # "Ok")
                   => sessions'[i] = sessions[i]]_vars

\* C7: the members that have accepted the same commit (the author by
\* apply_pending_commit, the others by processing it, a new member by its
\* Welcome) are in the epoch after the commit's and have equal group state,
\* and a member that accepts it next and remains in the group joins them in
\* that state, whatever the commits were and whichever wire format each
\* session uses.
C7_Convergence ==
    \A i \in Members :
        LET g == sessions[i].protocol
        IN  /\ InTree(g.tree, g.me) /\ g.tree[g.me + 1].id = i
            /\ \A m \in CommitPackets : m.id = g.key => g.epoch = m.epoch + 1
            /\ \A m \in KnownCommits(i) :
                   LET o == AcceptOf(i, m)
                   IN  o.ret = "Ok" =>
                           /\ o.s.protocol.epoch = m.epoch + 1
                           /\ o.s.protocol.active =>
                                  \A j \in Members :
                                      sessions[j].protocol.key = m.id =>
                                          has_equal_state(o.s, sessions[j])
            /\ \A j \in Members :
                   sessions[j].protocol.key = g.key =>
                       /\ Epoch(j) = g.epoch
                       /\ has_equal_state(sessions[i], sessions[j])
                       /\ roster(sessions[i]) = roster(sessions[j])
                       /\ participant_count(sessions[i]) = participant_count(sessions[j])

\* Three sessions exist; a commit that removes a member has been accepted by
\* the two that remain, one sending controls encrypted and one in plaintext.
C7_Witness ==
    /\ Cardinality(Live) = 3
    /\ Cardinality(Members) = 2
    /\ \E m \in CommitPackets :
        /\ RemovedLeaves(m) # << >>
        /\ \A i \in Members : sessions[i].protocol.key = m.id
        /\ \E i, j \in Members : sessions[i].opts /\ ~sessions[j].opts

\* C8: a client that joins from a commit's Welcome and the tree exported by a
\* session that is in the state after that commit gets a session with state
\* equal to that session's (same epoch, same roster, itself on the roster) and
\* with no pending commit, with or without a path update in the commit.
C8_JoinerMatchesCommitter ==
    \A w \in welcomes : \A j \in Members :
        sessions[j].protocol.key = w.key =>
            \A c \in w.to :
                LET o == join(c, w, export_tree(sessions[j]), EncryptControls(c))
                IN  /\ o.ret = "Ok"
                    /\ has_equal_state(o.s, sessions[j])
                    /\ o.s.protocol.epoch = Epoch(j)
                    /\ roster(o.s) = roster(sessions[j])
                    /\ c \in Range(roster(o.s))
                    /\ IsNone(o.s.pending_commit)

\* A client has joined from the Welcome of a commit made without a path
\* update, which its author has applied.
C8_Witness ==
    \E w \in welcomes : \E m \in CommitPackets : \E c \in w.to :
        /\ m.id = w.key
        /\ ~m.path
        /\ accepted[0] = 1
        /\ sessions[0].protocol.key = w.key
        /\ has_session[c]
        /\ sessions[c].protocol.key = w.key

\* C9: a session that holds a pending commit and successfully processes a
\* received commit holds none afterwards: apply_pending_commit then returns
\* PendingCommitNotFound and commit is not refused for a pending commit (it
\* succeeds for a session still in the group); successfully processing any
\* other kind of message keeps the pending commit.
C9_ReceivedCommitDiscardsPending ==
    \A i \in Live : \A m \in net :
        LET o == process_incoming_bytes(sessions[i], m)
        IN  (IsSome(Pending(i)) /\ o.ret = "Ok") =>
                IF o.kind = "commit"
                THEN /\ IsNone(o.s.pending_commit)
                     /\ \A group_ok \in BOOLEAN :
                            apply_pending_commit(o.s, group_ok).ret = "PendingCommitNotFound"
                     /\ \A ps \in ProposalLists(i) : \A ser \in SerFaults :
                            commit(o.s, ps, ser, NextCommitId).ret # "ExistingPendingCommit"
                     /\ o.s.protocol.active =>
                            commit(o.s, << >>, "none", NextCommitId).ret = "Ok"
                ELSE o.s.pending_commit = Pending(i)

\* A session that holds a pending commit can process another member's commit.
C9_Witness ==
    \E i \in Live : \E m \in CommitPackets :
        /\ IsSome(Pending(i))
        /\ process_incoming_bytes(sessions[i], m).ret = "Ok"

OnlyUpdatesByRef(m) ==
    /\ m.proposals # << >>
    /\ \A k \in 1 .. Len(m.proposals) : m.proposals[k].ref /\ m.proposals[k].p.type = "update"

\* C10: the sender of a proposal never processes its own proposal packet
\* (CantProcessMessageFromSelf) and yet holds the proposal; a commit made with
\* an empty by-value list carries every buffered proposal by reference; a
\* session that accepts a commit of Updates by reference reports no member
\* added or removed, has the proposers' new leaf keys in its tree and an empty
\* proposal buffer, and the sessions that accepted it have equal state.
C10_UpdateByReference ==
    \A i \in Members :
        LET s == sessions[i]
            g == s.protocol
        IN  /\ \A m \in ProposalPackets :
                   (m.epoch = g.epoch /\ m.parent = g.key /\ m.sender = g.me) =>
                       /\ process_incoming_bytes(s, m).ret = "CantProcessMessageFromSelf"
                       /\ m.proposals[1].p \in Range(g.buf)
            /\ LET o == commit(s, << >>, "none", NextCommitId)
               IN  o.ret = "Ok" =>
                       o.packet[1].proposals = [k \in 1 .. Len(g.buf) |-> ByRef(g.buf[k])]
            /\ \A m \in KnownCommits(i) :
                   LET o == AcceptOf(i, m)
                   IN  o.ret = "Ok" =>
                           /\ o.s.protocol.buf = << >>
                           /\ OnlyUpdatesByRef(m) =>
                                  /\ o.upd.added = << >>
                                  /\ o.upd.removed = << >>
                                  /\ o.upd.active
                                  /\ \A k \in 1 .. Len(m.proposals) :
                                         LET p == m.proposals[k].p
                                         IN  o.s.protocol.tree[p.sender + 1].key = p.arg
                                  /\ \A j \in Members :
                                         sessions[j].protocol.key = m.id =>
                                             has_equal_state(o.s, sessions[j])

\* Three members have all accepted a commit that carries, by reference only,
\* an Update proposed by a member other than the committer.
C10_Witness ==
    /\ Cardinality(Members) = 3
    /\ \E m \in CommitPackets :
        /\ OnlyUpdatesByRef(m)
        /\ m.proposals[1].p.sender # m.sender
        /\ \A i \in Members :
               /\ sessions[i].protocol.key = m.id
               /\ sessions[i].protocol.buf = << >>
               /\ sessions[i].protocol.tree[m.proposals[1].p.sender + 1].key
                      = m.proposals[1].p.arg

\* Member i commits the Remove that remove_proposal(index) returns, and member
\* j of the same epoch accepts that commit: what each of them is told.
RemoveRound(i, j, index) ==
    LET r == remove_proposal(sessions[i], index)
        c == commit(sessions[i], << r.p >>, "none", NextCommitId)
        a == apply_pending_commit(c.s, TRUE)
        o == process_incoming_bytes(sessions[j], IF IsSome(c.packet) THEN c.packet[1] ELSE Garbage)
    IN  [made |-> r.ret = "Ok" /\ c.ret = "Ok" /\ a.ret = "Ok",
         welcome |-> c.welcome, author |-> a, other |-> o]

\* C11: when a commit with a Remove of one member (and no Add) is accepted by
\* the members of the epoch, each one's StateUpdate lists exactly the removed
\* member's credential in removed and nothing in added; active is false for
\* the removed member and true for every other member, the author included,
\* and the members that remain end with state equal to the author's.
C11_RemoveStateUpdate ==
    \A i \in Members : \A index \in Indices :
        LET g == sessions[i].protocol
            gone == g.tree[index + 1].id
            t == RemoveRound(i, i, index)
        IN  (t.made /\ SelectType(g.buf, "add") = << >>) =>
                /\ t.author.upd.removed = << gone >>
                /\ t.author.upd.added = << >>
                /\ t.author.upd.active
                /\ gone # i
                /\ \A j \in Members \ {i} :
                       LET o == RemoveRound(i, j, index).other
                       IN  (sessions[j].protocol.key = g.key /\ o.ret = "Ok") =>
                               /\ o.kind = "commit"
                               /\ o.upd.removed = << gone >>
                               /\ o.upd.added = << >>
                               /\ o.upd.active = (j # gone)
                               /\ o.s.protocol.active = (j # gone)
                               /\ j # gone => has_equal_state(o.s, t.author.s)

\* A commit with one Remove has been accepted by its author and by a second
\* member that remains, and by the removed member, whose session is inactive.
C11_Witness ==
    \E m \in CommitPackets :
        /\ Len(RemovedLeaves(m)) = 1
        /\ Len(m.proposals) = 1
        /\ Cardinality({ i \in Members : sessions[i].protocol.key = m.id }) = 2
        /\ \E c \in Live \ Members :
               /\ sessions[c].protocol.key = m.id
               /\ sessions[c].protocol.epoch = m.epoch + 1

\* Member i commits the by-value list ps (with what its buffer holds) and
\* applies the commit; member j receives the commit packet.
CommitRound(i, ps) ==
    LET c == commit(sessions[i], ps, "none", NextCommitId)
        a == apply_pending_commit(c.s, TRUE)
    IN  [made |-> c.ret = "Ok" /\ a.ret = "Ok", commit |-> c, author |-> a]

Received(j, c) ==
    process_incoming_bytes(sessions[j], IF IsSome(c.packet) THEN c.packet[1] ELSE Garbage)

\* The members a commit of i adds with Add(c) by value: the buffered Adds, then c.
AddedBy(i, c) == ArgsOf(SelectType(sessions[i].protocol.buf, "add")) \o << c >>

NoBlankLeaf(tree) == \A l \in 1 .. Len(tree) : ~IsBlank(tree[l])

\* C12 (as stated): after a commit of Adds is applied, the roster is the
\* previous members followed by the added ones.
C12_RosterIsAppended ==
    \A i \in Members : \A c \in Clients :
        LET t == CommitRound(i, << add_proposal(sessions[i], c).p >>)
        IN  (t.made /\ SelectType(sessions[i].protocol.buf, "remove") = << >>) =>
                roster(t.author.s) = roster(sessions[i]) \o AddedBy(i, c)

\* C12: a commit of Adds (and no Remove) gives its author and every member that
\* processes it a StateUpdate with added = the added credentials in proposal
\* order, removed empty and active true; afterwards the roster holds the
\* previous members, each at its leaf, and the added ones, each in the lowest
\* blank leaf: it is the previous roster followed by the added members when
\* the tree had no blank leaf.
C12_AddStateUpdate ==
    \A i \in Members : \A c \in Clients :
        LET s == sessions[i]
            t == CommitRound(i, << add_proposal(s, c).p >>)
            new == t.author.s
        IN  (t.made /\ SelectType(s.protocol.buf, "remove") = << >>) =>
                /\ t.author.upd.added = AddedBy(i, c)
                /\ t.author.upd.removed = << >>
                /\ t.author.upd.active
                /\ Range(roster(new)) = Range(roster(s)) \cup Range(AddedBy(i, c))
                /\ participant_count(new) >= participant_count(s)
                /\ \A x \in Range(roster(s)) :
                       LeafIndexOf(new.protocol.tree, x) = LeafIndexOf(s.protocol.tree, x)
                /\ NoBlankLeaf(s.protocol.tree) => roster(new) = roster(s) \o AddedBy(i, c)
                /\ \A j \in Members \ {i} :
                       LET o == Received(j, t.commit)
                       IN  o.ret = "Ok" =>
                               /\ o.upd.added = AddedBy(i, c)
                               /\ o.upd.removed = << >>
                               /\ o.upd.active
                               /\ roster(o.s) = roster(new)

\* In an epoch after the first, a commit of two Adds, one by reference and one
\* by value, has been applied; the member added last is last on the roster.
C12_Witness ==
    \E m \in CommitPackets : \E i \in Members :
        /\ Len(m.proposals) = 2
        /\ m.proposals[1].ref /\ ~m.proposals[2].ref
        /\ \A k \in 1 .. 2 : m.proposals[k].p.type = "add"
        /\ sessions[i].protocol.key = m.id
        /\ m.epoch >= 1
        /\ roster(sessions[i])[Len(roster(sessions[i]))] = m.proposals[2].p.arg

\* C13: a successful commit returns a Welcome packet exactly when the
\* proposals it commits, buffered or handed in, include an Add: none for an
\* empty commit or one of Updates or Removes only; the Welcome of a commit of
\* Adds is one packet from which every added member can join, with the tree
\* the author exports after applying the commit.
C13_WelcomeIffAdd ==
    \A i \in Live : \A ps \in ProposalLists(i) : \A ser \in SerFaults :
        LET s == sessions[i]
            o == commit(s, ps, ser, NextCommitId)
            adds == ArgsOf(SelectType(s.protocol.buf \o ps, "add"))
            a == apply_pending_commit(o.s, TRUE)
        IN  o.ret = "Ok" =>
                /\ IsSome(o.welcome) <=> adds # << >>
                /\ IsSome(o.welcome) =>
                       /\ a.ret = "Ok"
                       /\ o.welcome[1].to = Range(adds)
                       /\ \A c \in Range(adds) :
                              LET n == join(c, o.welcome[1], export_tree(a.s), EncryptControls(c))
                              IN  n.ret = "Ok" /\ has_equal_state(n.s, a.s)

\* A commit of an Update by reference was made and returned no Welcome, in a
\* group whose second member joined from the Welcome of a commit with an Add.
C13_Witness ==
    /\ \E m \in CommitPackets :
           /\ OnlyUpdatesByRef(m)
           /\ \A w \in welcomes : w.key # m.id
    /\ \E w \in welcomes : \E c \in w.to :
           has_session[c] /\ start_epoch[c] = w.epoch /\ c \in Members

\* C14: for members x and y of the same epoch, the application messages x
\* encrypts one after the other are processed by y to
\* ProcessedMessage::Application with the plaintext of each, and y's epoch
\* stays as it is.
C14_ApplicationDelivery ==
    \A x \in Members : \A y \in Members \ {x} :
        sessions[x].protocol.key = sessions[y].protocol.key =>
            \A d1 \in Payloads : \A d2 \in Payloads :
                LET e1 == encrypt_application_data(sessions[x], d1)
                    e2 == encrypt_application_data(e1.s, d2)
                    o1 == process_incoming_bytes(sessions[y], e1.packet[1])
                    o2 == process_incoming_bytes(o1.s, e2.packet[1])
                IN  /\ e1.ret = "Ok" /\ e2.ret = "Ok"
                    /\ e1.s.protocol.epoch = Epoch(x) /\ e2.s.protocol.epoch = Epoch(x)
                    /\ o1.ret = "Ok" /\ o1.kind = "application" /\ o1.data = d1
                    /\ o2.ret = "Ok" /\ o2.kind = "application" /\ o2.data = d2
                    /\ o1.s.protocol.epoch = Epoch(y) /\ o2.s.protocol.epoch = Epoch(y)
                    /\ has_equal_state(o2.s, sessions[y])

\* A member has taken in the application message another member of its epoch
\* encrypted.
C14_Witness ==
    \E x \in Members : \E y \in Members \ {x} : \E m \in ApplicationPackets :
        /\ sessions[x].protocol.key = sessions[y].protocol.key
        /\ m.parent = sessions[x].protocol.key
        /\ m.sender = sessions[x].protocol.me
        /\ sessions[x].protocol.gen = 1
        /\ << m.sender, m.id >> \in sessions[y].protocol.seen

\* C15: an application ciphertext is accepted at most once by a receiver:
\* once a session has processed it, processing the same ciphertext again
\* fails, returns no plaintext and changes nothing, also after the session has
\* accepted a commit in between.
C15_NoReplay ==
    \A y \in Live : \A m \in ApplicationPackets :
        LET o == process_incoming_bytes(sessions[y], m)
            again == process_incoming_bytes(o.s, m)
        IN  /\ o.ret = "Ok" =>
                /\ again.ret # "Ok"
                /\ again.data = 0
                /\ again.s = o.s
                /\ \A c \in KnownCommits(y) :
                       LET a == process_incoming_bytes(o.s, c)
                           later == process_incoming_bytes(a.s, m)
                       IN  a.ret = "Ok" => later.ret # "Ok" /\ later.data = 0
            /\ (<< m.sender, m.id >> \in sessions[y].protocol.seen
                    /\ m.parent = sessions[y].protocol.key) =>
                   o.ret = "KeyNotFound" /\ o.data = 0 /\ o.s = sessions[y]

\* A session has processed an application ciphertext, and the same ciphertext
\* is refused.
C15_Witness ==
    \E y \in Members : \E m \in ApplicationPackets :
        /\ << m.sender, m.id >> \in sessions[y].protocol.seen
        /\ m.epoch = Epoch(y)
        /\ m.sender # sessions[y].protocol.me
        /\ process_incoming_bytes(sessions[y], m).ret = "KeyNotFound"

HasNonZero(bytes) == \E i \in 1 .. Len(bytes) : bytes[i] # 0

\* The confirmation tag is present exactly when the content is a commit.
TagMatchesContent(content, auth) ==
    IsSome(auth.confirmation_tag) <=> content_type(content) = ContentTypeCommit

Deserialized(kind) == codec.kind = kind /\ codec.stage = "deserialized"

\* C17: when an MLSCiphertextContent is deserialized, every byte after the
\* content and the authentication data is padding: a value is returned only
\* if all of them are zero (and then they are its padding, so that the value
\* serializes back to the bytes read), and a serialization whose padding has
\* a non-zero byte is refused with the decoding error "non-zero padding bytes
\* discovered".
C17_NonZeroPaddingRejected ==
    Deserialized("ciphertext_content") =>
        LET x == codec.value
            r == codec.out
        IN  /\ r.ok =>
                /\ ~HasNonZero(r.v.padding)
                /\ content_type(r.v.content) = codec.read_as
                /\ r.rest = << >>
                /\ CiphertextContentSerialize(r.v) = codec.written.bytes
            /\ (/\ codec.read_as = content_type(x.content)
                /\ TagMatchesContent(x.content, x.auth)
                /\ HasNonZero(x.padding)) =>
                   /\ ~r.ok
                   /\ r.err = "DecodingError: non-zero padding bytes discovered"

\* Padding of a zero byte and a non-zero byte was refused.
C17_Witness ==
    /\ Deserialized("ciphertext_content")
    /\ codec.read_as = content_type(codec.value.content)
    /\ TagMatchesContent(codec.value.content, codec.value.auth)
    /\ codec.value.padding = << 0, 1 >>
    /\ codec.out.err = "DecodingError: non-zero padding bytes discovered"

\* C18: an MLSCiphertextContent with all-zero padding, serialized and then
\* deserialized with its content's own content type, comes back equal to the
\* original, whatever its content and its authentication data.
C18_CiphertextContentRoundTrip ==
    (/\ Deserialized("ciphertext_content")
     /\ codec.read_as = content_type(codec.value.content)
     /\ ~HasNonZero(codec.value.padding)) =>
        /\ codec.out.ok
        /\ codec.out.v = codec.value

\* C19: an MLSPlaintext, serialized and then deserialized, comes back equal to
\* the original, whatever its sender and whether or not it has a membership
\* tag, and tls_serialized_len is the number of bytes written.
C19_PlaintextRoundTrip ==
    Deserialized("plaintext") =>
        /\ codec.out.ok
        /\ codec.out.v = codec.value
        /\ Len(codec.written.bytes) = PlaintextLen(codec.value)

\* C20: a Custom credential of any credential type can be constructed;
\* serializing one of type 0, 1 or 2 fails with an encoding error, and one of
\* type 3 or more is written as the u16 type, then the length-prefixed data.
C20_CustomCredentialEncoding ==
    (/\ codec.kind = "credential"
     /\ codec.stage \in {"serialized", "deserialized"}
     /\ codec.value.variant = "Custom") =>
        LET c == codec.value
            w == codec.written
        IN  /\ c.credential_type \in 0 .. 2 =>
                /\ ~w.ok
                /\ w.err = "EncodingError: custom credential types can not be set to defined values of 0-2"
                /\ w.bytes = << >>
            /\ c.credential_type >= 3 =>
                /\ w.ok
                /\ w.bytes = << c.credential_type \div 256, c.credential_type % 256,
                                Len(c.data) >> \o c.data

\* A Custom credential of type X509 was constructed and its serialization
\* failed.
C20_Witness ==
    /\ codec.kind = "credential"
    /\ codec.stage = "serialized"
    /\ codec.value.variant = "Custom"
    /\ codec.value.credential_type = X509
    /\ codec.value.data = << 1 >>
    /\ ~codec.written.ok

\* C21: a received credential whose u16 type is neither Basic nor X509
\* decodes to a Custom credential carrying that type and the bytes after the
\* length, and encoding the decoded credential gives back the bytes received.
C21_UnknownTypeRoundTrip ==
    (/\ codec.kind = "received_credential"
     /\ codec.stage \in {"decoded", "reencoded"}
     /\ codec.read_as \notin {BASIC, X509}) =>
        /\ codec.out.ok
        /\ codec.out.v.variant = "Custom"
        /\ codec.out.v.credential_type = codec.read_as
        /\ ByteVec(codec.out.v.data) = SubSeq(codec.value, 3, Len(codec.value))
        /\ codec.stage = "reencoded" =>
               codec.written.ok /\ codec.written.bytes = codec.value

(***************************************************************************)
(* Key package validation: a key package is generated by its owner, has    *)
(* some of its fields replaced (each time either signed again by the owner *)
(* or left with the signatures it had), and is then handed to              *)
(* KeyPackageValidator::check_if_valid of some validator with some         *)
(* options.                                                                *)
(***************************************************************************)
KeyPackageFields ==
    {"version", "cipher_suite", "hpke_init_key", "public_key", "not_after",
     "leaf_node_source", "signature", "leaf_signature"}
LeafNodeFields == {"public_key", "not_after", "leaf_node_source"}

FieldValues(field) ==
    CASE field = "version" -> ProtocolVersions
      [] field = "cipher_suite" -> CipherSuites
      [] field \in {"hpke_init_key", "public_key"} -> HpkeKeys
      [] field = "not_after" -> Times
      [] OTHER -> {0}

Edited(package, field, value) ==
    CASE field = "version" -> [package EXCEPT !.version = value]
      [] field = "cipher_suite" -> [package EXCEPT !.cipher_suite = value]
      [] field = "hpke_init_key" -> [package EXCEPT !.hpke_init_key = value]
      [] field = "public_key" -> [package EXCEPT !.leaf_node.public_key = value]
      [] field = "not_after" ->
             [package EXCEPT !.leaf_node.leaf_node_source.lifetime.not_after = value]
      [] field = "leaf_node_source" ->
             [package EXCEPT !.leaf_node.leaf_node_source = LeafNodeSourceUpdate]
      [] field = "signature" -> [package EXCEPT !.signature = RandomSignature]
      [] field = "leaf_signature" ->
             [package EXCEPT !.leaf_node.signature = RandomSignature]

\* The owner signs again what the edit has invalidated: the leaf node after
\* an edit of the leaf node, and the package in any case.
Resigned(package, field) ==
    IF field \in LeafNodeFields
    THEN KeyPackageSign([package EXCEPT
             !.leaf_node = LeafNodeSign(package.leaf_node, package.cipher_suite)])
    ELSE KeyPackageSign(package)

GenerateKeyPackage ==
    /\ validation.stage = "idle"
    /\ \E version \in ProtocolVersions, cipher_suite \in CipherSuites,
          signature_key \in SignatureKeys, not_after \in 1 .. MaxTime :
       \E init_key \in HpkeKeys \ {0}, leaf_key \in HpkeKeys \ {0} :
          /\ init_key # leaf_key
          /\ validation' =
                 [kind |-> "key_package", stage |-> "generated",
                  subject |-> KeyPackageGenerate(version, cipher_suite, signature_key,
                                                 init_key, leaf_key, Lifetime(1, not_after)),
                  edits |-> 0, args |-> << >>, out |-> ValidErr("")]
    /\ UNCHANGED << sessionVars, codec, rpc >>

EditKeyPackage ==
    /\ validation.kind = "key_package"
    /\ validation.stage = "generated"
    /\ validation.edits < MaxEdits
    /\ \E field \in KeyPackageFields : \E value \in FieldValues(field) :
       \E resign \in BOOLEAN :
          validation' =
              [validation EXCEPT
                  !.subject = IF resign
                              THEN Resigned(Edited(validation.subject, field, value), field)
                              ELSE Edited(validation.subject, field, value),
                  !.edits = @ + 1]
    /\ UNCHANGED << sessionVars, codec, rpc >>

CheckKeyPackage ==
    /\ validation.kind = "key_package"
    /\ validation.stage = "generated"
    /\ \E protocol_version \in ProtocolVersions, cipher_suite \in CipherSuites,
          time \in Options(Times) :
          validation' =
              [validation EXCEPT
                  !.stage = "checked",
                  !.args = [validator |-> KeyPackageValidatorNew(protocol_version, cipher_suite),
                            options |-> KeyPackageValidationOptions(time)],
                  !.out = check_if_valid(
                              KeyPackageValidatorNew(protocol_version, cipher_suite),
                              validation.subject, KeyPackageValidationOptions(time))]
    /\ UNCHANGED << sessionVars, codec, rpc >>

NextKeyPackage ==
    \/ GenerateKeyPackage
    \/ EditKeyPackage
    \/ CheckKeyPackage

SpecKeyPackage == Init /\ [][NextKeyPackage]_vars

\* The key package, the validator and the time of a finished check.
KeyPackageChecked == validation.kind = "key_package" /\ validation.stage = "checked"
CheckedPackage == validation.subject
CheckedBy == validation.args.validator
CheckedAt == validation.args.options.apply_lifetime_check
OwnerKey(package) == package.leaf_node.signing_identity.signature_key
SameVersionAndSuite(self, package) ==
    /\ package.version = self.protocol_version
    /\ package.cipher_suite = self.cipher_suite

\* C22: a key package whose signature is not the signature of its leaf
\* node's signature key over its other fields is refused by check_if_valid with
\* SignatureError, whatever the validator's version and cipher suite and
\* whatever else the package holds; a key package just generated is accepted
\* by the validator of its version and cipher suite.
C22_SignatureChecked ==
    KeyPackageChecked =>
        /\ CheckedPackage.signature #
               Sign(OwnerKey(CheckedPackage), CheckedBy.cipher_suite,
                    KeyPackageTBS(CheckedPackage))
             => validation.out = ValidErr("SignatureError")
        /\ (/\ validation.edits = 0
            /\ SameVersionAndSuite(CheckedBy, CheckedPackage)
            /\ IsNone(CheckedAt)) => validation.out.ok

C22_Witness ==
    /\ KeyPackageChecked
    /\ validation.edits = 1
    /\ CheckedPackage.signature = RandomSignature
    /\ SameVersionAndSuite(CheckedBy, CheckedPackage)
    /\ validation.out.err = "SignatureError"

CorrectlySigned == check_signature(CheckedBy, CheckedPackage).ok
InitKeyIsLeafKey == CheckedPackage.hpke_init_key = CheckedPackage.leaf_node.public_key

\* C23 as stated: every correctly signed key package whose init key equals
\* its leaf node's public key is refused with InitLeafKeyEquality, every one
\* whose init key is no valid public key with InvalidInitKey, and none with
\* equal keys is accepted.
C23_InitKeyErrors ==
    (KeyPackageChecked /\ CorrectlySigned) =>
        /\ InitKeyIsLeafKey => validation.out = ValidErr("InitLeafKeyEquality")
        /\ ~kem_public_key_validate(CheckedPackage.hpke_init_key)
             => validation.out = ValidErr("InvalidInitKey")
        /\ InitKeyIsLeafKey => ~validation.out.ok

\* C23: a correctly signed key package of the validator's protocol version
\* and cipher suite is refused with InvalidInitKey when its init key is no
\* valid public key, and with InitLeafKeyEquality when its init key is valid
\* and equal to its leaf node's public key; no key package whose init key
\* equals its leaf node's public key is accepted.
C23_InitKeyChecked ==
    KeyPackageChecked =>
        /\ (CorrectlySigned /\ SameVersionAndSuite(CheckedBy, CheckedPackage)) =>
              /\ ~kem_public_key_validate(CheckedPackage.hpke_init_key)
                   => validation.out = ValidErr("InvalidInitKey")
              /\ (kem_public_key_validate(CheckedPackage.hpke_init_key) /\ InitKeyIsLeafKey)
                   => validation.out = ValidErr("InitLeafKeyEquality")
        /\ InitKeyIsLeafKey => ~validation.out.ok

C23_Witness ==
    /\ KeyPackageChecked
    /\ CorrectlySigned
    /\ SameVersionAndSuite(CheckedBy, CheckedPackage)
    /\ InitKeyIsLeafKey
    /\ validation.out.err = "InitLeafKeyEquality"

\* C24 as stated: every correctly signed key package of another cipher suite
\* than the validator's is refused with InvalidCipherSuite(found, expected),
\* every one of another protocol version with
\* InvalidProtocolVersion(found, expected), and a package is accepted only if
\* both match.
C24_SuiteAndVersionErrors ==
    (KeyPackageChecked /\ CorrectlySigned) =>
        /\ CheckedPackage.cipher_suite # CheckedBy.cipher_suite =>
               validation.out = ValidErrOf("InvalidCipherSuite",
                                           CheckedPackage.cipher_suite, CheckedBy.cipher_suite)
        /\ CheckedPackage.version # CheckedBy.protocol_version =>
               validation.out = ValidErrOf("InvalidProtocolVersion",
                                           CheckedPackage.version, CheckedBy.protocol_version)
        /\ validation.out.ok => SameVersionAndSuite(CheckedBy, CheckedPackage)

\* C24: a correctly signed key package of another protocol version than the
\* validator's is refused with InvalidProtocolVersion(package's, validator's);
\* one of the validator's protocol version and of another cipher suite is
\* refused with InvalidCipherSuite(package's, validator's); a key package is
\* accepted only if both match.
C24_SuiteAndVersionChecked ==
    KeyPackageChecked =>
        /\ (CorrectlySigned /\ CheckedPackage.version # CheckedBy.protocol_version) =>
               validation.out = ValidErrOf("InvalidProtocolVersion",
                                           CheckedPackage.version, CheckedBy.protocol_version)
        /\ (/\ CorrectlySigned
            /\ CheckedPackage.version = CheckedBy.protocol_version
            /\ CheckedPackage.cipher_suite # CheckedBy.cipher_suite) =>
               validation.out = ValidErrOf("InvalidCipherSuite",
                                           CheckedPackage.cipher_suite, CheckedBy.cipher_suite)
        /\ validation.out.ok => SameVersionAndSuite(CheckedBy, CheckedPackage)

C24_Witness ==
    /\ KeyPackageChecked
    /\ CorrectlySigned
    /\ CheckedPackage.cipher_suite # CheckedBy.cipher_suite
    /\ validation.out.err = "InvalidCipherSuite"
    /\ validation.out.found # validation.out.expected

CheckedLifetime == CheckedPackage.leaf_node.leaf_node_source.lifetime
AcceptedWithoutTime ==
    check_if_valid(CheckedBy, CheckedPackage, KeyPackageValidationOptions(None)).ok

\* C25: the lifetime is checked only when a time is supplied: a key package
\* that is accepted with apply_lifetime_check = None is, with
\* apply_lifetime_check = Some(t), refused with
\* LeafNodeValidationError::InvalidLifetime when its lifetime does not contain
\* t and accepted when it does; an accepted key package's
\* expiration_timestamp is its leaf node's lifetime.not_after.
C25_LifetimeCheckedWithTime ==
    KeyPackageChecked =>
        /\ (IsSome(CheckedAt) /\ AcceptedWithoutTime) =>
              IF WithinLifetime(CheckedLifetime, CheckedAt[1])
              THEN validation.out.ok
              ELSE validation.out = ValidErr("LeafNodeValidationError::InvalidLifetime")
        /\ validation.out.ok =>
              /\ validation.out.v = CheckedLifetime.not_after
              /\ AcceptedWithoutTime

C25_Witness ==
    /\ KeyPackageChecked
    /\ IsSome(CheckedAt)
    /\ AcceptedWithoutTime
    /\ ~WithinLifetime(CheckedLifetime, CheckedAt[1])
    /\ validation.out.err = "LeafNodeValidationError::InvalidLifetime"

(***************************************************************************)
(* Message signatures and membership tags (src/group/message_signature.rs, *)
(* src/membership_tag.rs).  The MLSPlaintext these two files read is not   *)
(* part of the sources: it is the record of the fields they read.  A       *)
(* signature is the pair of the signing key and the content signed, an     *)
(* HMAC tag the triple of the key, the hash function and the data.         *)
(***************************************************************************)
SenderTypes == {"Member", "Preconfigured", "NewMember"}
WireFormats == {"Plain", "Cipher"}
FramedEpochs == {1, 2}
FramedContents == {"hello", "world"}
MembershipKeys == {"membership_key_a", "membership_key_b"}

\* get_test_group_context(epoch)
GroupContext(epoch) == [group_id |-> << >>, epoch |-> epoch]
GroupContexts == { GroupContext(e) : e \in FramedEpochs }

\* get_test_epoch_key_schedule(cipher_suite, membership_key, ..)
EpochKeySchedule(cipher_suite, membership_key) ==
    [cipher_suite |-> cipher_suite, membership_key |-> membership_key]
EpochKeySchedules ==
    { EpochKeySchedule(c, k) : c \in CipherSuites, k \in MembershipKeys }

MessageSignatureEmpty == [key |-> 0, over |-> << >>]

FramedPlaintext(epoch, sender_type, content, confirmation_tag) ==
    [group_id |-> << >>, epoch |-> epoch,
     sender |-> [sender_type |-> sender_type, sender |-> 0],
     authenticated_data |-> << >>, content |-> content,
     signature |-> MessageSignatureEmpty, confirmation_tag |-> confirmation_tag]
FramedPlaintexts ==
    { FramedPlaintext(e, t, c, tag) :
          e \in FramedEpochs, t \in SenderTypes, c \in FramedContents, tag \in Options({1}) }

\* A to-be-signed content that leaves the wire format out.
TBS_from_plaintext_AnyWireFormat(plaintext, group_context, format) ==
    [context |-> IF plaintext.sender.sender_type = "Member"
                 THEN Some(group_context) ELSE None,
     wire_format |-> "Plain",
     group_id |-> plaintext.group_id,
     epoch |-> plaintext.epoch,
     sender |-> plaintext.sender,
     authenticated_data |-> plaintext.authenticated_data,
     content |-> plaintext.content]

\* MLSPlaintextTBS::from_plaintext
TBS_from_plaintext(plaintext, group_context, format) ==
    [context |-> IF plaintext.sender.sender_type = "Member"
                 THEN Some(group_context) ELSE None,
     wire_format |-> format,
     group_id |-> plaintext.group_id,
     epoch |-> plaintext.epoch,
     sender |-> plaintext.sender,
     authenticated_data |-> plaintext.authenticated_data,
     content |-> plaintext.content]

\* MessageSignature::create
MessageSignature_create(signer, plaintext, group_context, format) ==
    [key |-> signer, over |-> TBS_from_plaintext(plaintext, group_context, format)]

\* MLSPlaintext::sign
sign(plaintext, signer, group_context, format) ==
    [plaintext EXCEPT
        !.signature = MessageSignature_create(signer, plaintext, group_context, format)]

\* MessageSignature::is_valid, with the key of the sender's credential
MessageSignature_is_valid(signature, plaintext, sender_key, group_context, format) ==
    signature = [key |-> sender_key,
                 over |-> TBS_from_plaintext(plaintext, group_context, format)]

\* MLSPlaintext::verify_signature
verify_signature(plaintext, sender_key, group_context, format) ==
    MessageSignature_is_valid(plaintext.signature, plaintext, sender_key,
                              group_context, format)

\* MLSPlaintextTBM::from_plaintext
TBM_from_plaintext(plaintext, group_context) ==
    [tbs |-> TBS_from_plaintext(plaintext, group_context, "Plain"),
     signature |-> plaintext.signature,
     confirmation_tag |-> plaintext.confirmation_tag]

\* MembershipTag::create
MembershipTag_create(plaintext, group_context, key_schedule) ==
    [key |-> key_schedule.membership_key,
     hash_function |-> key_schedule.cipher_suite,
     data |-> TBM_from_plaintext(plaintext, group_context)]

\* MembershipTag::matches
MembershipTag_matches(self, plaintext, group_context, key_schedule) ==
    MembershipTag_create(plaintext, group_context, key_schedule) = self

\* A plaintext is signed and its signature verified, possibly in another
\* group context; a membership tag is created and matched against a
\* plaintext, a group context and a key schedule.
SignPlaintext ==
    /\ validation.stage = "idle"
    /\ \E plaintext \in FramedPlaintexts, group_context \in GroupContexts,
          format \in WireFormats, signer \in SignatureKeys :
          validation' =
              [kind |-> "signature", stage |-> "signed",
               subject |-> sign(plaintext, signer, group_context, format),
               edits |-> 0,
               args |-> [signer |-> signer, group_context |-> group_context,
                         wire_format |-> format],
               out |-> ValidErr("")]
    /\ UNCHANGED << sessionVars, codec, rpc >>

\* The leaves of the tree a signature is verified against, and the signature
\* key of the credential at each of them.
FramedLeaves == {0, 1}
FramedTrees == [FramedLeaves -> SignatureKeys]

\* The plaintext as signed, or with one of its fields replaced and the
\* signature kept.
Tampered(plaintext) ==
    { plaintext,
      [plaintext EXCEPT !.group_id = << 1 >>],
      [plaintext EXCEPT !.epoch = @ + 1],
      [plaintext EXCEPT !.sender.sender = 1 - @],
      [plaintext EXCEPT !.sender.sender_type = IF @ = "Member" THEN "NewMember" ELSE "Member"],
      [plaintext EXCEPT !.authenticated_data = << 1 >>],
      [plaintext EXCEPT !.content = IF @ = "hello" THEN "world" ELSE "hello"] }

\* verify_signature of the plaintext signed before, or of a tampered one,
\* against a tree, a group context and a wire format; the key is the one of
\* the credential at the leaf the plaintext names as its sender.
VerifySignature ==
    /\ validation.kind = "signature"
    /\ validation.stage = "signed"
    /\ \E group_context \in GroupContexts, tree \in FramedTrees, format \in WireFormats :
       \E plaintext \in Tampered(validation.subject) :
          validation' =
              [validation EXCEPT
                  !.stage = "verified",
                  !.args = [signed |-> validation.args, plaintext |-> plaintext,
                            tree |-> tree, group_context |-> group_context,
                            wire_format |-> format],
                  !.edits = IF /\ plaintext = validation.subject
                               /\ group_context = validation.args.group_context
                               /\ format = validation.args.wire_format
                            THEN 0 ELSE 1,
                  !.out = ValidOk(verify_signature(plaintext, tree[plaintext.sender.sender],
                                      group_context, format))]
    /\ UNCHANGED << sessionVars, codec, rpc >>

CreateMembershipTag ==
    /\ validation.stage = "idle"
    /\ \E plaintext \in FramedPlaintexts, group_context \in GroupContexts,
          key_schedule \in EpochKeySchedules :
          validation' =
              [kind |-> "membership_tag", stage |-> "created",
               subject |-> [tag |-> MembershipTag_create(plaintext, group_context,
                                                         key_schedule),
                            plaintext |-> plaintext, group_context |-> group_context,
                            key_schedule |-> key_schedule],
               edits |-> 0, args |-> << >>, out |-> ValidErr("")]
    /\ UNCHANGED << sessionVars, codec, rpc >>

\* The number of arguments of a match that are not those the tag was created
\* from.
Differing(created, plaintext, group_context, key_schedule) ==
    (IF plaintext = created.plaintext THEN 0 ELSE 1)
    + (IF group_context = created.group_context THEN 0 ELSE 1)
    + (IF key_schedule.membership_key = created.key_schedule.membership_key THEN 0 ELSE 1)

MatchMembershipTag ==
    /\ validation.kind = "membership_tag"
    /\ validation.stage = "created"
    /\ \E plaintext \in FramedPlaintexts, group_context \in GroupContexts,
          membership_key \in MembershipKeys :
          validation' =
              [validation EXCEPT
                  !.stage = "matched",
                  !.edits = Differing(validation.subject, plaintext, group_context,
                                EpochKeySchedule(validation.subject.key_schedule.cipher_suite,
                                                 membership_key)),
                  !.args = [plaintext |-> plaintext, group_context |-> group_context,
                            key_schedule |->
                                EpochKeySchedule(validation.subject.key_schedule.cipher_suite,
                                                 membership_key)],
                  !.out = ValidOk(MembershipTag_matches(validation.subject.tag, plaintext,
                              group_context,
                              EpochKeySchedule(validation.subject.key_schedule.cipher_suite,
                                               membership_key)))]
    /\ UNCHANGED << sessionVars, codec, rpc >>

NextFraming ==
    \/ SignPlaintext
    \/ VerifySignature
    \/ CreateMembershipTag
    \/ MatchMembershipTag

SpecFraming == Init /\ [][NextFraming]_vars

TagMatched == validation.kind = "membership_tag" /\ validation.stage = "matched"
OnlyContextDiffers ==
    /\ validation.edits = 1
    /\ validation.args.group_context # validation.subject.group_context

\* C26: MembershipTag::matches returns true for the plaintext, the group
\* context and the membership key the tag was created from, and false when
\* exactly one of the three is another one.
C26_MembershipTagMatches ==
    TagMatched =>
        /\ validation.edits = 0 => validation.out.v = TRUE
        /\ validation.edits = 1 => validation.out.v = FALSE

\* What holds of the code instead: when exactly one of the three is another
\* one, matches returns false, except that for a plaintext whose sender is not
\* a member another group context still matches.
C26_MembershipTagBinds ==
    TagMatched =>
        /\ validation.edits = 0 => validation.out.v = TRUE
        /\ validation.edits = 1 =>
              validation.out.v =
                  (/\ OnlyContextDiffers
                   /\ validation.args.plaintext.sender.sender_type # "Member")

\* C28: the content signed for a framed message holds the group context,
\* whatever the sender type of the message.
C28_ContextSigned ==
    (validation.kind = "signature" /\ validation.stage = "signed") =>
        validation.subject.signature.over.context = Some(validation.args.group_context)

(***************************************************************************)
(* The X.509 identity provider (aws-mls-identity-x509/src/provider.rs).    *)
(* Its validator is injected: here a validator answers one expected call   *)
(* (a chain and a timestamp) with a public key, fails every other call,    *)
(* and fails every call if so configured.  credential_to_chain is not part *)
(* of the sources.                                                         *)
(***************************************************************************)
SigningIdentity(credential, signature_key) ==
    [signature_key |-> signature_key, credential |-> credential]

credential_to_chain(credential) ==
    IF credential.variant = "X509"
    THEN ValidOk(credential.chain)
    ELSE ValidErr("UnsupportedCredentialType")

\* X509CredentialValidator::validate_chain of the configured validator
validate_chain(validator, chain, timestamp) ==
    IF validator.fails THEN ValidErr("TestError")
    ELSE IF chain # validator.chain \/ timestamp # validator.timestamp
    THEN ValidErr("TestError")
    ELSE ValidOk(validator.leaf_public_key)

\* X509IdentityProvider::new
X509IdentityProviderNew(validator) == [validator |-> validator]

\* X509IdentityProvider::validate
KeyChecked(self, signing_identity, chain, timestamp) ==
    IF validate_chain(self.validator, chain, timestamp).v # signing_identity.signature_key
    THEN ValidErr("SignatureKeyMismatch")
    ELSE ValidOk(0)
ChainValidated(self, signing_identity, chain, timestamp) ==
    IF ~validate_chain(self.validator, chain, timestamp).ok
    THEN ValidErr("ChainValidationError")
    ELSE KeyChecked(self, signing_identity, chain, timestamp)
validate_NoTimestamp(self, signing_identity, timestamp) ==
    IF ~credential_to_chain(signing_identity.credential).ok
    THEN credential_to_chain(signing_identity.credential)
    ELSE ChainValidated(self, signing_identity,
                        credential_to_chain(signing_identity.credential).v, None)
validate(self, signing_identity, timestamp) ==
    IF ~credential_to_chain(signing_identity.credential).ok
    THEN credential_to_chain(signing_identity.credential)
    ELSE ChainValidated(self, signing_identity,
                        credential_to_chain(signing_identity.credential).v, timestamp)

\* X509IdentityProvider::supported_types
supported_types(self) == << X509 >>

CertificateChains == SeqsUpTo(ByteStrings, 1)
Validators ==
    { [fails |-> f, chain |-> ch, timestamp |-> ts, leaf_public_key |-> k] :
          f \in BOOLEAN, ch \in CertificateChains, ts \in Options(Times),
          k \in SignatureKeys }
SigningIdentities ==
    { SigningIdentity(c, k) :
          c \in DefinedCredentials \cup { CustomCredentialNew(MaxCredentialType, << >>) },
          k \in SignatureKeys }

\* test_setup: a provider around a configured validator
SetupProvider ==
    /\ validation.stage = "idle"
    /\ \E validator \in Validators :
          validation' =
              [kind |-> "x509", stage |-> "configured",
               subject |-> X509IdentityProviderNew(validator),
               edits |-> 0, args |-> << >>, out |-> ValidErr("")]
    /\ UNCHANGED << sessionVars, codec, rpc >>

ValidateIdentity ==
    /\ validation.kind = "x509"
    /\ validation.stage = "configured"
    /\ \E signing_identity \in SigningIdentities, timestamp \in Options(Times) :
          validation' =
              [validation EXCEPT
                  !.stage = "validated",
                  !.args = [signing_identity |-> signing_identity,
                            timestamp |-> timestamp],
                  !.out = validate(validation.subject, signing_identity, timestamp)]
    /\ UNCHANGED << sessionVars, codec, rpc >>

SupportedTypes ==
    /\ validation.kind = "x509"
    /\ validation.stage = "configured"
    /\ validation' = [validation EXCEPT !.stage = "listed",
                                        !.out = ValidOk(supported_types(validation.subject))]
    /\ UNCHANGED << sessionVars, codec, rpc >>

NextX509 ==
    \/ SetupProvider
    \/ ValidateIdentity
    \/ SupportedTypes

SpecX509 == Init /\ [][NextX509]_vars

IdentityValidated == validation.kind = "x509" /\ validation.stage = "validated"
ValidatedIdentity == validation.args.signing_identity
ConfiguredValidator == validation.subject.validator
\* The configured validator accepts the identity's chain at the time given
\* to validate.
ChainAccepted ==
    /\ ~ConfiguredValidator.fails
    /\ ConfiguredValidator.chain = ValidatedIdentity.credential.chain
    /\ ConfiguredValidator.timestamp = validation.args.timestamp

\* C27: validate succeeds exactly when the credential is an X.509 chain, the
\* validator accepts that chain with the timestamp given to validate, and the
\* key the validator returns is the identity's signature key; an accepted
\* chain with another key gives SignatureKeyMismatch, a chain the validator
\* refuses gives ChainValidationError; supported_types is [X509].
C27_X509Validate ==
    /\ IdentityValidated =>
          /\ validation.out.ok <=>
                 /\ ValidatedIdentity.credential.variant = "X509"
                 /\ ChainAccepted
                 /\ ConfiguredValidator.leaf_public_key = ValidatedIdentity.signature_key
          /\ (/\ ValidatedIdentity.credential.variant = "X509"
              /\ ChainAccepted
              /\ ConfiguredValidator.leaf_public_key # ValidatedIdentity.signature_key)
                 => validation.out = ValidErr("SignatureKeyMismatch")
          /\ (ValidatedIdentity.credential.variant = "X509" /\ ~ChainAccepted)
                 => validation.out = ValidErr("ChainValidationError")
    /\ (validation.kind = "x509" /\ validation.stage = "listed") =>
          validation.out.v = << 2 >>

C27_Witness ==
    /\ IdentityValidated
    /\ ValidatedIdentity.credential.variant = "X509"
    /\ ChainAccepted
    /\ IsSome(validation.args.timestamp)
    /\ ConfiguredValidator.leaf_public_key # ValidatedIdentity.signature_key
    /\ validation.out.err = "SignatureKeyMismatch"

(***************************************************************************)
(* The RPC harness (mls-rs/test_harness_integration/src/main.rs): every    *)
(* request is served by its own task; the clients, each with its optional  *)
(* group, sit in one vector behind the `clients` mutex.  rpc.guard is the   *)
(* task holding the mutex (0: nobody), rpc.groups holds for every state id  *)
(* the client (named by the number of the call that built it) and whether  *)
(* it has a group, rpc.made counts the clients built, rpc.returned holds   *)
(* the ids handed out with the client each was handed out for, and         *)
(* rpc.task is every task's request and position in its handler.           *)
(***************************************************************************)
Tasks == 1 .. MaxTasks
StateIds == 0 .. MaxStates

\* The handlers that create a client before they take the mutex, and those
\* that work on the group of the client found under the mutex.
CreatingCalls ==
    {"create_group", "create_key_package", "external_join", "new_member_add_proposal"}
GroupCalls ==
    {"protect", "unprotect", "send_proposal", "commit", "handle_commit",
     "handle_pending_commit", "handle_pending_re_init_commit", "handle_re_init_commit",
     "create_branch", "handle_branch", "group_info"}
RpcCalls == CreatingCalls \cup GroupCalls \cup {"join_group"}

\* The creating handlers whose client is pushed with a group.
CreatesGroup(call) == call \in {"create_group", "external_join"}

IdleTask == [pc |-> "idle", call |-> "none", state_id |-> 0, client |-> 0]

\* clients.get_mut(state_id), and .group.as_mut() for the handlers that
\* work on an existing group
ClientFound(groups, call, state_id) ==
    /\ state_id < Len(groups)
    /\ call \in GroupCalls => groups[state_id + 1].group

\* A request arrives; the handlers that create a client build it (and, for
\* create_group and external_join, its group) before they ask for the mutex.
RpcRequest(t) ==
    /\ rpc.task[t].pc = "idle"
    /\ \E call \in RpcCalls \ {"handle_re_init_commit"}, state_id \in StateIds :
          /\ call \in CreatingCalls => state_id = 0 /\ rpc.made < MaxStates
          /\ rpc' = [rpc EXCEPT
                        !.made = IF call \in CreatingCalls THEN @ + 1 ELSE @,
                        !.task[t] =
                            [pc |-> "acquire", call |-> call, state_id |-> state_id,
                             client |-> IF call \in CreatingCalls THEN rpc.made + 1 ELSE 0]]
    /\ UNCHANGED << sessionVars, codec, validation >>

\* self.clients.lock().await
RpcLock_NoWait(t) ==
    /\ rpc.task[t].pc = "acquire"
    /\ rpc' = [rpc EXCEPT !.guard = t, !.task[t].pc = "locked"]
    /\ UNCHANGED << sessionVars, codec, validation >>
RpcLock(t) ==
    /\ rpc.task[t].pc = "acquire"
    /\ rpc.guard = 0
    /\ rpc' = [rpc EXCEPT !.guard = t, !.task[t].pc = "locked"]
    /\ UNCHANGED << sessionVars, codec, validation >>

\* clients.push(client)
RpcPush(t) ==
    /\ rpc.task[t].pc = "locked"
    /\ rpc.task[t].call \in CreatingCalls
    /\ rpc' = [rpc EXCEPT
                  !.groups = Append(@, [client |-> rpc.task[t].client,
                                        group |-> CreatesGroup(rpc.task[t].call)]),
                  !.task[t].pc = "pushed"]
    /\ UNCHANGED << sessionVars, codec, validation >>

\* state_id: clients.len() as u32 - 1
RpcStateId(t) ==
    /\ rpc.task[t].pc = "pushed"
    /\ rpc' = [rpc EXCEPT !.task[t].pc = "operated", !.task[t].state_id = Len(rpc.groups) - 1]
    /\ UNCHANGED << sessionVars, codec, validation >>

\* "no group with such index": the handler returns early
RpcAbort(t) ==
    /\ rpc.task[t].pc = "locked"
    /\ rpc.task[t].call \notin CreatingCalls
    /\ ~ClientFound(rpc.groups, rpc.task[t].call, rpc.task[t].state_id)
    /\ rpc' = [rpc EXCEPT !.task[t].pc = "operated"]
    /\ UNCHANGED << sessionVars, codec, validation >>

\* The handler starts its operation on the group of the client found.
RpcOperate(t) ==
    /\ rpc.task[t].pc = "locked"
    /\ rpc.task[t].call \notin CreatingCalls
    /\ ClientFound(rpc.groups, rpc.task[t].call, rpc.task[t].state_id)
    /\ rpc' = [rpc EXCEPT !.task[t].pc = "operating"]
    /\ UNCHANGED << sessionVars, codec, validation >>

\* The operation ends; join_group gives the client its group.
RpcOperated(t) ==
    /\ rpc.task[t].pc = "operating"
    /\ rpc' = [rpc EXCEPT
                  !.groups[rpc.task[t].state_id + 1].group =
                      IF rpc.task[t].call = "join_group" THEN TRUE ELSE @,
                  !.task[t].pc = "operated"]
    /\ UNCHANGED << sessionVars, codec, validation >>

\* The response of a creating handler carries the state id (the transaction
\* id); create_key_package returns an error instead when the key package
\* cannot be written into the response.
Responses(t) ==
    IF rpc.task[t].call \notin CreatingCalls THEN { {} }
    ELSE { { [state_id |-> rpc.task[t].state_id, client |-> rpc.task[t].client] } }
             \cup (IF rpc.task[t].call = "create_key_package" THEN { {} } ELSE {})

\* The guard is dropped at the end of the handler (of the block, in
\* handle_pending_re_init_commit, which then goes on with
\* handle_re_init_commit and takes the mutex again).
RpcReturn(t) ==
    /\ rpc.task[t].pc = "operated"
    /\ \E response \in Responses(t) :
          rpc' = [rpc EXCEPT
                     !.guard = IF @ = t THEN 0 ELSE @,
                     !.returned = @ \cup response,
                     !.task[t] =
                         IF rpc.task[t].call = "handle_pending_re_init_commit"
                         THEN [pc |-> "acquire", call |-> "handle_re_init_commit",
                               state_id |-> rpc.task[t].state_id, client |-> 0]
                         ELSE IdleTask]
    /\ UNCHANGED << sessionVars, codec, validation >>

NextRpc ==
    \/ \E t \in Tasks : RpcRequest(t)
    \/ \E t \in Tasks : RpcLock(t)
    \/ \E t \in Tasks : RpcPush(t)
    \/ \E t \in Tasks : RpcStateId(t)
    \/ \E t \in Tasks : RpcAbort(t)
    \/ \E t \in Tasks : RpcOperate(t)
    \/ \E t \in Tasks : RpcOperated(t)
    \/ \E t \in Tasks : RpcReturn(t)

SpecRpc == Init /\ [][NextRpc]_vars

Operating(t) == rpc.task[t].pc = "operating"

\* C29: single writer: a task inside a group operation holds the clients
\* mutex, and no two tasks are inside a group operation on the same state id at
\* the same time.
C29_SingleWriter ==
    \A t \in Tasks :
        Operating(t) =>
            /\ rpc.guard = t
            /\ \A u \in Tasks \ {t} :
                   ~(Operating(u) /\ rpc.task[u].state_id = rpc.task[t].state_id)

\* One task is inside a group operation while another one waits for the
\* mutex with a request for the same state id.
C29_Witness ==
    \E t \in Tasks, u \in Tasks :
        /\ t # u
        /\ Operating(t)
        /\ rpc.task[t].call = "commit"
        /\ rpc.task[u].pc = "acquire"
        /\ rpc.task[u].call = "handle_commit"
        /\ rpc.task[u].state_id = rpc.task[t].state_id

\* Members a and b each have a commit pending that they made in the epoch
\* every member is in, and every member holds the proposals a's commit
\* refers to: a's commit can be delivered to everyone.
Competing(a, b) ==
    /\ a # b
    /\ IsSome(Pending(a))
    /\ IsSome(Pending(b))
    /\ Pending(a)[1].epoch = Epoch(a)
    /\ Pending(b)[1].epoch = Epoch(a)
    /\ \A m \in Members :
           /\ has_equal_state(sessions[m], sessions[a])
           /\ RefsKnown(sessions[m].protocol, Pending(a)[1])

\* Member m after the delivery of a's commit: a applies its pending commit,
\* every other member processes the commit as a received message.
Delivered(a, m) ==
    IF m = a
    THEN AcceptOf(a, Pending(a)[1])
    ELSE LET r == process_incoming_bytes(sessions[m], Pending(a)[1])
         IN  [ret |-> r.ret, upd |-> r.upd, s |-> r.s]

BuiltInCurrentEpoch(i) ==
    /\ Pending(i)[1].kind = "commit"
    /\ Pending(i)[1].epoch = Epoch(i)
    /\ Pending(i)[1].parent = sessions[i].protocol.key

\* C31: in every reachable session state a stored pending commit was created
\* in the session's current epoch: no sequence of commit,
\* apply_pending_commit, clear_pending_commit, process_incoming_message and
\* proposal or encryption operations leaves a session holding a pending
\* commit that was built in an earlier epoch.
C31_PendingIsOfCurrentEpoch ==
    \A i \in Live : IsSome(Pending(i)) => BuiltInCurrentEpoch(i)

\* A session that has already moved to a later epoch holds a pending commit
\* made there, after it has sent a proposal in that epoch.
C31_Witness ==
    \E i \in Live :
        /\ IsSome(Pending(i))
        /\ Epoch(i) > start_epoch[i]
        /\ accepted[i] > 0
        /\ sessions[i].protocol.buf # << >>

\* C32: whenever Session::commit returns an error (the group rejects the
\* proposals, or serializing the commit or the Welcome fails), the session's
\* stored pending commit is the same as before the call, so still absent, and
\* a later commit is not refused with ExistingPendingCommit because of the
\* failed call.
C32_FailedCommitStoresNothing ==
    [][\A i \in Clients : \A ps \in ProposalLists(i) : \A ser \in SerFaults :
        (/\ Commit(i, ps, ser)
         /\ commit(sessions[i], ps, ser, NextCommitId).ret # "Ok")
            => /\ sessions'[i].pending_commit = sessions[i].pending_commit
               /\ IsNone(sessions[i].pending_commit) =>
                      commit(sessions'[i], << >>, "none", commits' + 1).ret
                          # "ExistingPendingCommit"]_vars

\* A step of session i that is none of commit, apply_pending_commit,
\* clear_pending_commit and the successful processing of a received Commit:
\* the processing of any other message, the creation or sending of a
\* proposal, the encryption of application data.
OtherOperation(i) ==
    \/ \E m \in net \cup { Garbage } :
           /\ ProcessIncomingBytes(i, m)
           /\ LET o == process_incoming_bytes(sessions[i], m)
              IN  ~(o.ret = "Ok" /\ o.kind = "commit")
    \/ \E c \in Clients : AddProposalCall(i, c) \/ ProposeAdd(i, c)
    \/ UpdateProposalCall(i) \/ ProposeUpdate(i)
    \/ \E l \in Indices : RemoveProposalCall(i, l) \/ ProposeRemove(i, l)
    \/ \E data \in Payloads : EncryptApplicationData(i, data)

\* A step in which session i calls commit, and one in which the call returns Ok.
CommitCalled(i, ok) ==
    \/ \E ps \in ProposalLists(i) : \E ser \in SerFaults :
           /\ Commit(i, ps, ser)
           /\ ok => commit(sessions[i], ps, ser, NextCommitId).ret = "Ok"
    \/ \E ps \in ProposalLists(i) :
           /\ CommitNoPath(i, ps)
           /\ ok => CommitOn(sessions[i], ps, FALSE, "none", NextCommitId).ret = "Ok"

PendingFrame(i, ok) ==
    /\ OtherOperation(i) => sessions'[i].pending_commit = sessions[i].pending_commit
    /\ (IsSome(sessions[i].pending_commit) /\ IsNone(sessions'[i].pending_commit))
           => PendingDroppedBy(i)
    /\ (IsNone(sessions[i].pending_commit) /\ IsSome(sessions'[i].pending_commit))
           => CommitCalled(i, ok)
    /\ (IsSome(sessions[i].pending_commit) /\ IsSome(sessions'[i].pending_commit))
           => sessions'[i].pending_commit = sessions[i].pending_commit

\* C33: processing a received proposal or application message, creating or
\* sending a proposal, and encrypting application data leave a stored pending
\* commit untouched: only apply_pending_commit, clear_pending_commit and a
\* successfully processed received Commit change the pending-commit slot from
\* present to absent, and only a successful Session::commit changes it from
\* absent to present.
C33_PendingCommitFrame ==
    [][\A i \in Clients : has_session[i] => PendingFrame(i, TRUE)]_vars

\* What holds of the slot: as C33, with absent to present by a call of
\* Session::commit, whether or not it returns Ok.
C33_PendingCommitFrameOfCalls ==
    [][\A i \in Clients : has_session[i] => PendingFrame(i, FALSE)]_vars

\* The checks a key package goes through, in the order the claim gives them,
\* each with the condition under which it fails and the error it then stands
\* for.
ChecksInOrder(self, package, options) ==
    << [failed |-> package.signature #
                       Sign(OwnerKey(package), self.cipher_suite, KeyPackageTBS(package)),
        err |-> "SignatureError"],
       [failed |-> package.version # self.protocol_version,
        err |-> "InvalidProtocolVersion"],
       [failed |-> package.cipher_suite # self.cipher_suite,
        err |-> "InvalidCipherSuite"],
       [failed |-> package.hpke_init_key = 0,
        err |-> "InvalidInitKey"],
       [failed |-> package.hpke_init_key = package.leaf_node.public_key,
        err |-> "InitLeafKeyEquality"],
       [failed |-> ~LeafNodeCheckIfValid(self.cipher_suite, package.leaf_node,
                                         [kind |-> "Add",
                                          time |-> options.apply_lifetime_check]).ok,
        err |-> LeafNodeCheckIfValid(self.cipher_suite, package.leaf_node,
                                     [kind |-> "Add",
                                      time |-> options.apply_lifetime_check]).err] >>

FailedChecks == 
    { k \in 1 .. 6 :
        ChecksInOrder(CheckedBy, CheckedPackage, validation.args.options)[k].failed }

FirstFailedCheck ==
    ChecksInOrder(CheckedBy, CheckedPackage, validation.args.options)[
        CHOOSE k \in FailedChecks : \A l \in FailedChecks : k <= l]

\* C34: check_if_valid reports the first failing check in the fixed order
\* signature, protocol version, cipher suite, init-key validity, init key
\* differs from leaf key, leaf-node validation (lifetime included): a package
\* that violates several checks always yields the error of the earliest one,
\* and a package that violates none is accepted.
C34_FirstFailingCheck ==
    KeyPackageChecked =>
        IF FailedChecks = {}
        THEN validation.out.ok
        ELSE ~validation.out.ok /\ validation.out.err = FirstFailedCheck.err

\* A package with an invalid signature and a wrong cipher suite has been
\* refused for its signature, and so has one whose init key is its leaf key
\* and whose lifetime is over been refused for the init key.
C34_Witness ==
    /\ KeyPackageChecked
    /\ Cardinality(FailedChecks) >= 2
    /\ \/ {1, 3} \subseteq FailedChecks /\ validation.out.err = "SignatureError"
       \/ FailedChecks = {5, 6} /\ validation.out.err = "InitLeafKeyEquality"

(***************************************************************************)
(* The membership tag in the encoding of an MLSPlaintext.                  *)
(***************************************************************************)
\* The bytes written after the content and the authentication data.
WrittenAfterAuth ==
    SubSeq(codec.written.bytes,
           Len(MLSContentSerialize(codec.value.content)) + Len(AuthSerialize(codec.value.auth)) + 1,
           Len(codec.written.bytes))

FromMember(content) == content.sender.kind = SenderMember

\* C35: serialization of an MLSPlaintext writes the membership tag exactly
\* when the tag field is present; deserialization reads a membership tag
\* exactly when the sender is Sender::Member and sets it to None for every
\* other sender, so a decoded MLSPlaintext has a membership tag if and only
\* if its sender is a Member.
C35_MembershipTagFraming ==
    (codec.kind = "plaintext" /\ codec.stage \in {"serialized", "deserialized"}) =>
        /\ WrittenAfterAuth = IF IsSome(codec.value.membership_tag)
                              THEN ByteVec(codec.value.membership_tag[1])
                              ELSE << >>
        /\ (Deserialized("plaintext") /\ codec.out.ok) =>
               (IsSome(codec.out.v.membership_tag) <=> FromMember(codec.out.v.content))
        /\ (/\ Deserialized("plaintext")
            /\ TagMatchesContent(codec.value.content.content, codec.value.auth)) =>
               IF FromMember(codec.value.content)
               THEN IF IsSome(codec.value.membership_tag)
                    THEN /\ codec.out.ok
                         /\ codec.out.v.membership_tag = codec.value.membership_tag
                         /\ codec.out.rest = << >>
                    ELSE ~codec.out.ok /\ codec.out.err = "EndOfStream"
               ELSE /\ codec.out.ok
                    /\ codec.out.v.membership_tag = None
                    /\ codec.out.rest = WrittenAfterAuth

\* An MLSPlaintext of a sender that is no member was written with its
\* membership tag and read back without it, the tag's bytes left unread.
C35_Witness ==
    /\ Deserialized("plaintext")
    /\ ~FromMember(codec.value.content)
    /\ IsSome(codec.value.membership_tag)
    /\ codec.out.ok
    /\ codec.out.v.membership_tag = None
    /\ codec.out.rest = ByteVec(codec.value.membership_tag[1])

\* A signature has been verified; what was signed, and with what.
SignatureVerified == validation.kind = "signature" /\ validation.stage = "verified"
SignedPlaintext == validation.subject
SignedWith == validation.args.signed
VerifiedKey == validation.args.tree[validation.args.plaintext.sender.sender]

\* C36: a signature produced by MLSPlaintext::sign for a Member sender under
\* a group context and a wire format verifies with verify_signature only
\* against the public key of the credential stored at the sender's leaf and
\* only with the same group context and wire format: with another group
\* context, another wire format, or after a change of group id, epoch,
\* sender, authenticated data or content, verify_signature returns false.
C36_SignatureBinds ==
    (SignatureVerified /\ SignedPlaintext.sender.sender_type = "Member") =>
        validation.out.v =
            (/\ VerifiedKey = SignedWith.signer
             /\ validation.args.group_context = SignedWith.group_context
             /\ validation.args.wire_format = SignedWith.wire_format
             /\ validation.args.plaintext = SignedPlaintext)

\* A member's signature has been verified with the signer's key at the
\* sender's leaf and the group context it was made under, but as of the other
\* wire format, and was found invalid.
C36_Witness ==
    /\ SignatureVerified
    /\ SignedPlaintext.sender.sender_type = "Member"
    /\ VerifiedKey = SignedWith.signer
    /\ validation.args.group_context = SignedWith.group_context
    /\ validation.args.plaintext = SignedPlaintext
    /\ validation.args.wire_format # SignedWith.wire_format
    /\ validation.out.v = FALSE

(***************************************************************************)
(* The group handlers of the RPC harness (main.rs), each taken as one step *)
(* since it holds the clients mutex from its first statement to its        *)
(* return.  State id c names the client whose group is sessions[c]         *)
(* (has_session[c]: the client has a group).  The group of mls-rs is not   *)
(* part of the sources: it is taken to process messages, build commits and *)
(* apply its pending commit as the specification says, which is what the   *)
(* session operations above do.  A handler returns a status ("Ok" or       *)
(* "aborted" with the error as message), its response, and leaves the      *)
(* group `s`.                                                              *)
(***************************************************************************)
MaxHarnessCommits == 2
MaxHarnessProposals == 2
MaxHarnessGroups == 2
MaxByReference == 2

HarnessAborted(e, s) ==
    [ret |-> "aborted", status |-> e, commit |-> None, welcome |-> None,
     ratchet_tree |-> << >>, s |-> s]

\* MlsMessage::from_bytes(..).map_err(abort)? and then the match on
\* group.process_incoming_message(proposal): Ok and CantProcessMessageFromSelf
\* go on, any other error is returned.
ProposalProcessed_SelfIsAnError(s, proposal) ==
    IF proposal.kind = "garbage" THEN [ok |-> FALSE, err |-> "Serialization", s |-> s]
    ELSE IF process_incoming_message(s, proposal).ret = "Ok"
    THEN [ok |-> TRUE, err |-> "", s |-> process_incoming_message(s, proposal).s]
    ELSE [ok |-> FALSE, err |-> process_incoming_message(s, proposal).ret,
          s |-> process_incoming_message(s, proposal).s]
ProposalProcessed(s, proposal) ==
    IF proposal.kind = "garbage" THEN [ok |-> FALSE, err |-> "Serialization", s |-> s]
    ELSE IF process_incoming_message(s, proposal).ret \in {"Ok", "CantProcessMessageFromSelf"}
    THEN [ok |-> TRUE, err |-> "", s |-> process_incoming_message(s, proposal).s]
    ELSE [ok |-> FALSE, err |-> process_incoming_message(s, proposal).ret,
          s |-> process_incoming_message(s, proposal).s]

\* for proposal in &request.by_reference { .. }?
RECURSIVE ProposalsProcessed(_, _)
ProposalsProcessed(s, proposals) ==
    IF proposals = << >> THEN [ok |-> TRUE, err |-> "", s |-> s]
    ELSE IF ~ProposalProcessed(s, Head(proposals)).ok
    THEN ProposalProcessed(s, Head(proposals))
    ELSE ProposalsProcessed(ProposalProcessed(s, Head(proposals)).s, Tail(proposals))

\* commit_builder.build(), then the pending commit applied to a clone of the
\* group for the tree of the response; the group itself stays as build() left it.
CommitBuilt_OnStoredGroup(s, built, external_tree) ==
    IF built.ret # "Ok" THEN HarnessAborted(built.ret, built.s)
    ELSE [ret |-> "Ok", status |-> "", commit |-> built.packet, welcome |-> built.welcome,
          ratchet_tree |-> IF external_tree
                           THEN export_tree(apply_pending_commit(built.s, TRUE).s)
                           ELSE << >>,
          s |-> apply_pending_commit(built.s, TRUE).s]
CommitBuilt(s, built, external_tree) ==
    IF built.ret # "Ok" THEN HarnessAborted(built.ret, built.s)
    ELSE [ret |-> "Ok", status |-> "", commit |-> built.packet, welcome |-> built.welcome,
          ratchet_tree |-> IF external_tree
                           THEN export_tree(apply_pending_commit(built.s, TRUE).s)
                           ELSE << >>,
          s |-> built.s]

\* MlsClientImpl::commit
harness_commit(s, by_reference, by_value, force_path, external_tree, id) ==
    IF ~ProposalsProcessed(s, by_reference).ok
    THEN HarnessAborted(ProposalsProcessed(s, by_reference).err,
                        ProposalsProcessed(s, by_reference).s)
    ELSE CommitBuilt(ProposalsProcessed(s, by_reference).s,
                     CommitOn(ProposalsProcessed(s, by_reference).s, by_value, force_path,
                              "none", id),
                     external_tree)

\* group.process_incoming_message(commit).map_err(abort)? and the response
CommitHandled(s, message) ==
    IF message.kind = "garbage" THEN HarnessAborted("Serialization", s)
    ELSE IF process_incoming_message(s, message).ret # "Ok"
    THEN HarnessAborted(process_incoming_message(s, message).ret,
                        process_incoming_message(s, message).s)
    ELSE IF process_incoming_message(s, message).kind # "commit"
    THEN HarnessAborted("message not a commit.", process_incoming_message(s, message).s)
    ELSE [ret |-> "Ok", status |-> "", commit |-> None, welcome |-> None,
          ratchet_tree |-> << >>, s |-> process_incoming_message(s, message).s]

\* MlsClientImpl::handle_commit
harness_handle_commit(s, proposals, message) ==
    IF ~ProposalsProcessed(s, proposals).ok
    THEN HarnessAborted(ProposalsProcessed(s, proposals).err,
                        ProposalsProcessed(s, proposals).s)
    ELSE CommitHandled(ProposalsProcessed(s, proposals).s, message)

\* MlsClientImpl::handle_pending_commit
harness_handle_pending_commit(s) ==
    IF apply_pending_commit(s, TRUE).ret # "Ok"
    THEN HarnessAborted(apply_pending_commit(s, TRUE).ret, apply_pending_commit(s, TRUE).s)
    ELSE [ret |-> "Ok", status |-> "", commit |-> None, welcome |-> None,
          ratchet_tree |-> << >>, s |-> apply_pending_commit(s, TRUE).s]

\* The proposal messages a caller can hand over by reference: those sent so
\* far, and bytes that are no message.
ByReferenceLists == SeqsUpTo(ProposalPackets \cup { Garbage }, MaxByReference)

\* A handler has run on the group of state id i.
Handled(i, o) ==
    /\ has_session[i]
    /\ sessions' = [sessions EXCEPT ![i] = o.s]
    /\ IF o.s.pending_commit # sessions[i].pending_commit /\ IsSome(o.s.pending_commit)
       THEN commits < MaxHarnessCommits /\ commits' = commits + 1
       ELSE UNCHANGED commits
    /\ accepted' = IF o.s.protocol.epoch # sessions[i].protocol.epoch
                   THEN [accepted EXCEPT ![i] = @ + 1]
                   ELSE accepted
    /\ net' = net \cup Range(o.commit)
    /\ welcomes' = welcomes \cup Range(o.welcome)
    /\ UNCHANGED << has_session, updates, start_epoch, codec, validation, rpc >>

\* The caller asks for a path in every commit (force_path) and for the tree
\* in the response (external_tree).
HarnessCommit(i, by_reference, by_value) ==
    Handled(i, harness_commit(sessions[i], by_reference, by_value, TRUE, TRUE,
                              NextCommitId))

HarnessHandleCommit(i, proposals, message) ==
    Handled(i, harness_handle_commit(sessions[i], proposals, message))

HarnessHandlePendingCommit(i) ==
    Handled(i, harness_handle_pending_commit(sessions[i]))

\* MlsClientImpl::add_proposal, remove_proposal, update_proposal through
\* MlsClientImpl::send_proposal
HarnessSendProposal(i, o, draws) ==
    /\ has_session[i]
    /\ o.ret = "Ok"
    /\ Cardinality(ProposalPackets \cup Range(o.packet)) <= MaxHarnessProposals
    /\ updates + draws <= MaxUpdates
    /\ updates' = updates + draws
    /\ sessions' = [sessions EXCEPT ![i] = o.s]
    /\ net' = net \cup Range(o.packet)
    /\ UNCHANGED << has_session, welcomes, commits, accepted, start_epoch, codec, validation,
                    rpc >>

\* At most MaxHarnessGroups clients are given a group.
InBoundsHarness == Cardinality({ c \in Clients : has_session'[c] }) <= MaxHarnessGroups

\* The proposals a caller hands to the commit handler by value: nothing, or
\* the Add of a client.
ByValueLists(i) == { << >> } \cup { << add_proposal(sessions[i], c).p >> : c \in Clients }

NextHarness ==
    \/ \E c, j \in Clients : \E w \in welcomes : Join(c, w, j) /\ InBoundsHarness
    \/ \E i \in Clients : \E by_reference \in ByReferenceLists :
       \E by_value \in ByValueLists(i) : HarnessCommit(i, by_reference, by_value)
    \/ \E i \in Clients : \E proposals \in ByReferenceLists :
       \E message \in CommitPackets \cup { Garbage } :
           HarnessHandleCommit(i, proposals, message)
    \/ \E i \in Clients : HarnessHandlePendingCommit(i)
    \/ \E i, c \in Clients : HarnessSendProposal(i, propose_add(sessions[i], c), 0)
    \/ \E i \in Clients : HarnessSendProposal(i, propose_update(sessions[i], NextUpdateKey), 1)

SpecHarness == Init /\ [][NextHarness]_vars

\* Processing proposal message m on group s is refused with an error other
\* than CantProcessMessageFromSelf (or m is no message at all).
Refused(s, m) ==
    \/ m.kind = "garbage"
    \/ process_incoming_message(s, m).ret \notin {"Ok", "CantProcessMessageFromSelf"}

\* The group after the first n of the proposals, each processed in turn (a
\* proposal that is not processed leaves the group as it is).
RECURSIVE GroupAfter(_, _, _)
GroupAfter(s, proposals, n) ==
    IF n = 0 THEN s
    ELSE IF proposals[1].kind = "garbage" THEN GroupAfter(s, Tail(proposals), n - 1)
    ELSE GroupAfter(process_incoming_message(s, proposals[1]).s, Tail(proposals), n - 1)

\* The first proposal of the list that is refused (0: none is).
FirstRefused(s, proposals) ==
    IF \E k \in 1 .. Len(proposals) : Refused(GroupAfter(s, proposals, k - 1), proposals[k])
    THEN CHOOSE k \in 1 .. Len(proposals) :
             /\ Refused(GroupAfter(s, proposals, k - 1), proposals[k])
             /\ \A l \in 1 .. (k - 1) : ~Refused(GroupAfter(s, proposals, l - 1), proposals[l])
    ELSE 0

ErrorOf(s, m) ==
    IF m.kind = "garbage" THEN "Serialization" ELSE process_incoming_message(s, m).ret

\* The handler was aborted at its k-th proposal: the status is that
\* proposal's error, nothing was committed and no commit was processed, and
\* the group is as the proposals before the k-th left it.
AbortedAt(o, s, proposals, k) ==
    /\ o.ret = "aborted"
    /\ o.status = ErrorOf(GroupAfter(s, proposals, k - 1), proposals[k])
    /\ o.commit = None /\ o.welcome = None
    /\ o.s = GroupAfter(s, proposals, k - 1)
    /\ o.s.pending_commit = s.pending_commit
    /\ o.s.protocol.epoch = s.protocol.epoch

\* C37: in the commit and handle_commit handlers a by-reference proposal
\* whose processing returns CantProcessMessageFromSelf is treated as success,
\* and the handler goes on with the next proposal and then with the commit
\* (built over all the proposals, or processed after them), whereas any other
\* error from processing a proposal aborts the handler before the commit is
\* built or processed.
C37_SelfProposalIsNoError ==
    \A i \in Live : \A proposals \in ByReferenceLists :
        LET k == FirstRefused(sessions[i], proposals)
            after == GroupAfter(sessions[i], proposals, Len(proposals))
        IN  /\ \A by_value \in ByValueLists(i) :
                   IF k > 0
                   THEN AbortedAt(harness_commit(sessions[i], proposals, by_value, TRUE, TRUE,
                                                 NextCommitId),
                                  sessions[i], proposals, k)
                   ELSE harness_commit(sessions[i], proposals, by_value, TRUE, TRUE,
                                       NextCommitId)
                            = CommitBuilt(after,
                                          CommitOn(after, by_value, TRUE, "none", NextCommitId),
                                          TRUE)
            /\ \A message \in CommitPackets :
                   IF k > 0
                   THEN AbortedAt(harness_handle_commit(sessions[i], proposals, message),
                                  sessions[i], proposals, k)
                   ELSE harness_handle_commit(sessions[i], proposals, message)
                            = CommitHandled(after, message)

\* A member hands its commit handler a proposal it has sent itself and then
\* one of another member: the first is answered CantProcessMessageFromSelf,
\* and the commit is built and refers to both.
C37_Witness ==
    \E i \in Live : \E proposals \in ByReferenceLists :
        /\ Len(proposals) = 2
        /\ proposals[1].kind = "proposal" /\ proposals[2].kind = "proposal"
        /\ process_incoming_message(sessions[i], proposals[1]).ret
               = "CantProcessMessageFromSelf"
        /\ proposals[2].sender # sessions[i].protocol.me
        /\ LET o == harness_commit(sessions[i], proposals, << >>, TRUE, TRUE, NextCommitId)
           IN  /\ o.ret = "Ok"
               /\ Len(o.commit[1].proposals) = 2

\* C38: under any interleaving of concurrent create_group,
\* create_key_package, external_join and new_member_add_proposal calls, the
\* state and transaction ids returned are pairwise distinct, each id returned
\* is the index, in the clients list, of the client created by that very
\* call, and an id once returned never comes to refer to another client.
C38_DistinctStateIds ==
    /\ \A r, q \in rpc.returned : r.state_id = q.state_id => r = q
    /\ \A r \in rpc.returned :
           /\ r.state_id < Len(rpc.groups)
           /\ rpc.groups[r.state_id + 1].client = r.client

\* Two creating calls were in their handlers at the same time, the one that
\* built its client later took the mutex first, and both have returned.
C38_Witness ==
    /\ Cardinality(rpc.returned) = 2
    /\ \E r, q \in rpc.returned : r.client < q.client /\ r.state_id > q.state_id

\* What the commit handler answers for a group: the commit it has built is
\* the group's pending commit, the group is in the epoch it was in after the
\* proposals, and the tree of the response is the tree of the next epoch,
\* which the group reaches when handle_pending_commit applies the commit.
CommitLeftPending(s, o) ==
    o.ret = "Ok" =>
        /\ o.s.pending_commit = o.commit
        /\ o.s.protocol.epoch = s.protocol.epoch
        /\ o.commit[1].epoch = s.protocol.epoch
        /\ harness_handle_pending_commit(o.s).ret = "Ok"
        /\ harness_handle_pending_commit(o.s).s.protocol.epoch = s.protocol.epoch + 1
        /\ o.ratchet_tree = export_tree(harness_handle_pending_commit(o.s).s)
        /\ (o.commit[1].proposals # << >>) => o.ratchet_tree # export_tree(o.s)

\* Session i moves into the epoch made by the commit it has pending.
OwnCommitApplied(i) ==
    /\ IsSome(sessions[i].pending_commit)
    /\ sessions'[i].protocol.epoch = sessions[i].protocol.epoch + 1
    /\ sessions'[i].protocol.key = sessions[i].pending_commit[1].id

\* C39: the commit handler leaves the stored group in its pre-commit epoch
\* with the new commit pending: the pending commit is applied to a clone
\* only, for the post-commit tree of the response, and the stored group
\* moves into the commit's epoch only when a later handle_pending_commit
\* applies it.
C39_CommitStaysPending ==
    /\ [](\A i \in Live : \A by_reference \in ByReferenceLists :
          \A by_value \in ByValueLists(i) :
              CommitLeftPending(sessions[i],
                                harness_commit(sessions[i], by_reference, by_value, TRUE, TRUE,
                                               NextCommitId)))
    /\ [][\A i \in Clients :
            (has_session[i] /\ OwnCommitApplied(i)) => HarnessHandlePendingCommit(i)]_vars

\* A member that has been through an epoch change holds the commit it has
\* built and sent as pending, is still in the epoch it built it in, and
\* would move on by handle_pending_commit.
C39_Witness ==
    \E i \in Live :
        /\ accepted[i] > 0
        /\ IsSome(Pending(i))
        /\ Pending(i)[1] \in net
        /\ Pending(i)[1].proposals # << >>
        /\ Epoch(i) = Pending(i)[1].epoch
        /\ harness_handle_pending_commit(sessions[i]).s.protocol.epoch = Epoch(i) + 1

=============================================================================
